---- MODULE Spec2Model ----
(***************************************************************************)
(* Siphon keeper node: the agent loop (agent_loop.rs), the tool executor   *)
(* boundary it calls (executor.rs) and the execute pipeline with its       *)
(* persisted "busy" state (api.rs, db.rs).                                 *)
(*                                                                         *)
(* The state machines of this module:                                      *)
(*   Spec      - one run of run_agent_loop against an arbitrary inference  *)
(*               gateway and arbitrary tool outcomes (FairSpec adds the    *)
(*               scheduler's fairness);                                    *)
(*   ExecSpec  - concurrent HTTP handlers (execute, train, release) over   *)
(*               one shard row of the SQLite database;                     *)
(*   JobSpec   - execute requests, their spawned pipelines and pollers of  *)
(*               the job table;                                            *)
(*   ToolSpec  - one call of execute_tool on the keeper's disk;            *)
(*   MemorySpec - the lesson memory of run_execution, executions taken one *)
(*               after the other (InterleavedSpec: two executions of       *)
(*               different agents interleaved; ExtractSpec: the extraction *)
(*               of a lesson from every small list of tool results).       *)
(***************************************************************************)
EXTENDS Integers, Sequences, FiniteSets, TLC

\* ------------------------------------------------------------------ bounds
\* Largest max_turns a request may carry in the model.
MaxTurnsBound == 2
\* Largest number of tool calls the gateway returns in one turn.
MaxCalls == 2
\* Largest number of tool calls the gateway requests over one run.
MaxToolCalls == 3
\* Concurrent execute requests, and concurrent train or release requests,
\* against the one shard.
NumExecute == 2
NumOther == 1

\* Option<T>: None is the empty sequence, Some(x) the one-element sequence.
None == <<>>
Some(x) == <<x>>

\* StopReason (agent_loop.rs)
StopReasons == {"Completed", "MaxTurns", "TurnTimeout", "InferenceError"}

\* Tool calls the modelled gateway may request: a tool without a timeout of
\* its own, a tool with one, and a name the executor does not know.  Two calls
\* share an id, so ids need not be unique within a turn.
ToolCallPool ==
    { [id |-> "c1", name |-> "code_eval"],
      [id |-> "c2", name |-> "shell_exec"],
      [id |-> "c2", name |-> "bogus"] }

\* Texts the gateway may answer with ("" is what unwrap_or_default yields for
\* a choice without content).
Contents == {"", "answer"}

\* The task text of the request.
InitialMessage == "task"

RECURSIVE SeqsUpTo(_, _)
SeqsUpTo(S, n) ==
    IF n = 0 THEN { <<>> }
    ELSE LET shorter == SeqsUpTo(S, n - 1)
         IN  shorter \cup { Append(s, x) : s \in { t \in shorter : Len(t) = n - 1 }, x \in S }

\* Variant of CallLists: an empty raw list is returned as ToolCalls too.
CallLists_WithEmpty == SeqsUpTo(ToolCallPool, MaxCalls)

\* Non-empty call lists: generate_with_tools returns ToolCalls only when the
\* raw list is not empty.
CallLists == { s \in SeqsUpTo(ToolCallPool, MaxCalls) : Len(s) > 0 }

\* ------------------------------------------------------- inference.rs types
\* ChatMessage::text
text(role, content) ==
    [ role |-> role, content |-> Some(content), tool_calls |-> None,
      tool_call_id |-> None, name |-> None ]

\* ChatMessage::tool_result
tool_result(tool_call_id, name, content) ==
    [ role |-> "tool", content |-> Some(content), tool_calls |-> None,
      tool_call_id |-> Some(tool_call_id), name |-> Some(name) ]

\* ChatMessage::assistant_tool_calls
assistant_tool_calls(calls) ==
    [ role |-> "assistant", content |-> None,
      tool_calls |-> Some([ i \in 1..Len(calls) |->
                             [ id |-> calls[i].id, call_type |-> "function",
                               name |-> calls[i].name ] ]),
      tool_call_id |-> None, name |-> None ]

\* InferenceResult
TextResult(content) == [ type |-> "Text", content |-> content ]
ToolCallsResult(calls) == [ type |-> "ToolCalls", calls |-> calls ]

\* --------------------------------------------------------- executor.rs
\* The tools execute_tool dispatches to.
KnownTools == {"code_eval", "http_fetch", "file_read", "file_write", "shell_exec"}

\* Tools whose implementation awaits an external process or a network peer.
SuspendingTools == {"code_eval", "http_fetch", "shell_exec"}

\* Tools whose await is wrapped in a timeout: http_fetch builds its client
\* with a 30 s timeout, shell_exec wraps the child in tokio::time::timeout.
\* code_eval awaits Command::output() with no timeout.
TimedTools == {"http_fetch", "shell_exec"}

\* The Result<String, String> values a tool implementation can return once
\* its process or peer has answered.
ToolOutcomes(name) ==
    IF name \in KnownTools
    THEN { [ok |-> TRUE, text |-> "out"], [ok |-> FALSE, text |-> "err"] }
    ELSE { [ok |-> FALSE, text |-> "Unknown tool"] }

AllToolOutcomes == UNION { ToolOutcomes(c.name) : c \in ToolCallPool }

\* The Err a timed tool returns when its timeout elapses.
TimeoutOutcome == [ok |-> FALSE, text |-> "timed out"]

\* execute_tool's wrapping of the outcome into a ToolResult.
WrapToolResult(call, outcome) ==
    [ tool_call_id |-> call.id, tool_name |-> call.name,
      success |-> outcome.ok, output |-> outcome.text ]

\* ----------------------------------------------------------------- shard.rs
\* ShardCapabilities: the default, with can_shell as update_for_level sets
\* it (true from level 5 on).
ShardCapabilities(can_shell) ==
    [ can_code |-> TRUE, can_fetch |-> TRUE, can_file_io |-> TRUE, can_shell |-> can_shell ]

CapabilityPool == { ShardCapabilities(can_shell) : can_shell \in BOOLEAN }

\* ShardCapabilities::allowed_tools
allowed_tools(capabilities) ==
    (IF capabilities.can_code THEN { "code_eval" } ELSE {})
      \cup (IF capabilities.can_fetch THEN { "http_fetch" } ELSE {})
      \cup (IF capabilities.can_file_io THEN { "file_read", "file_write" } ELSE {})
      \cup (IF capabilities.can_shell THEN { "shell_exec" } ELSE {})

\* inference::shard_tool_definitions: the names of the tools defined
shard_tool_definitions == KnownTools

\* ------------------------------------------------------------------ state
VARIABLES
    \* run_agent_loop: parameters (the names of the tool definitions handed
    \* in, the turn limit) and locals
    tools, max_turns, turn_number, conversation, turns, all_tool_results,
    all_success, final_response, stop_reason,
    calls, call_idx, turn_results,
    \* control position of the loop and the value it returned
    pc, loop_result,
    \* environment: whether the awaited gateway / process will ever answer
    responsive,
    \* history: number of inference calls issued, their outcomes in call
    \* order, and the tool calls handed to the executor in start order
    inference_calls, inference_log, tool_execs

loopVars == << tools, max_turns, turn_number, conversation, turns, all_tool_results,
               all_success, final_response, stop_reason, calls, call_idx,
               turn_results, pc, loop_result, responsive, inference_calls,
               inference_log, tool_execs >>

VARIABLES
    \* the shard's row in the keeper database
    db_shard,
    \* AppState behind the tokio RwLock: holders of a read guard, tasks
    \* queued for the write guard, and the job table
    rw_readers, rw_writers, jobs,
    \* POST /api/shards/{id}/execute, one entry per request: position, the
    \* handler's local Shard value (None once dropped), background flag, HTTP
    \* outcome, and the AgentLoopResult run_execution holds
    e_pc, e_shard, e_background, e_response, e_loop,
    \* POST /api/shards/{id}/train or /release, one entry per request:
    \* position and the handler's local Shard value
    h_pc, h_shard,
    \* GET /api/jobs/{id}: the id and the answer of the latest poll
    polled

execVars == << db_shard, rw_readers, rw_writers, jobs, e_pc, e_shard,
               e_background, e_response, e_loop, h_pc, h_shard, polled >>

VARIABLES
    \* the directories and files that exist (absolute paths, as sequences of
    \* components) on the keeper's disk
    fs_dirs, fs_files,
    \* execute_tool: position, the ToolCall being executed, the file-system,
    \* network and process operations it has issued so far (in order), the
    \* ToolResult it returned, and whether it panicked instead
    x_pc, x_call, x_effects, x_result, x_panicked,
    \* the disk as it was when the call started, the timeout shell_exec armed,
    \* how long the spawned child runs, whether disk operations succeed during
    \* this call, and the number of calls executed so far
    x_before, x_timeout, x_runtime, x_io_ok, x_count

toolVars == << fs_dirs, fs_files, x_pc, x_call, x_effects, x_result,
               x_panicked, x_before, x_timeout, x_runtime, x_io_ok, x_count >>

VARIABLES
    \* the task_lessons table (a row's id is its position) and the
    \* lesson_retrieval_events table (likewise)
    task_lessons, lesson_retrieval_events,
    \* now_millis, in units of 14 days
    clock,
    \* the memory side of each run_execution: position, the request, the two
    \* retrieval results, the event id, the loop result, the verdict
    runs

memVars == << task_lessons, lesson_retrieval_events, clock, runs >>

vars == << loopVars, execVars, toolVars, memVars >>

ExecuteReqs == 1..NumExecute
OtherReqs == 1..NumOther

\* x-owner-id header values a request may carry.
OwnerHeaders == { None, Some("alice") }

\* Shard::spawn: a fresh shard is wild, unowned and idle.  Only the fields
\* the handlers below branch on or overwrite are kept.
SpawnedShard == [ execution_state |-> "idle", owner_id |-> None, is_wild |-> TRUE ]

\* A shard row whose owner_id column is set; the handlers read the column
\* and release_shard_handler clears it.
OwnedShard == [ execution_state |-> "idle", owner_id |-> Some("alice"), is_wild |-> FALSE ]

\* No request has arrived: the lock is free and the job table is empty.
HandlersIdle ==
    /\ rw_readers = {}
    /\ rw_writers = {}
    /\ jobs = [ r \in ExecuteReqs |-> None ]
    /\ e_pc = [ r \in ExecuteReqs |-> "new" ]
    /\ e_shard = [ r \in ExecuteReqs |-> None ]
    /\ e_background = [ r \in ExecuteReqs |-> FALSE ]
    /\ e_response = [ r \in ExecuteReqs |-> "none" ]
    /\ e_loop = [ r \in ExecuteReqs |-> None ]
    /\ h_pc = [ h \in OtherReqs |-> "new" ]
    /\ h_shard = [ h \in OtherReqs |-> None ]
    /\ polled = None

ExecInit == db_shard = SpawnedShard /\ HandlersIdle

LoopInit ==
    /\ tools \in { allowed_tools(capabilities) \cap shard_tool_definitions :
                     capabilities \in CapabilityPool }
    /\ max_turns \in 0..MaxTurnsBound
    /\ turn_number = 0
    /\ conversation = << text("user", InitialMessage) >>
    /\ turns = <<>>
    /\ all_tool_results = <<>>
    /\ all_success = TRUE
    /\ final_response = None
    /\ stop_reason = "MaxTurns"
    /\ calls = <<>>
    /\ call_idx = 0
    /\ turn_results = <<>>
    /\ pc = "loop_head"
    /\ loop_result = None
    /\ responsive = TRUE
    /\ inference_calls = 0
    /\ inference_log = <<>>
    /\ tool_execs = <<>>

\* ------------------------------------------------- executor.rs in detail
\* Strings the executor inspects character by character are sequences of
\* one-character strings.
PathChars == {"/", ".", "a"}
\* Longest path argument, in characters.
MaxPathLen == 3
Paths == SeqsUpTo(PathChars, MaxPathLen)

\* str::starts_with
StartsWith(s, p) == Len(s) >= Len(p) /\ SubSeq(s, 1, Len(p)) = p

\* str::contains
Contains(s, p) ==
    \E i \in 1..(Len(s) - Len(p) + 1) : SubSeq(s, i, i + Len(p) - 1) = p

\* Mutant of is_safe_path: the absolute-path test is missing.
is_safe_path_NoAbsoluteTest(path) == ~Contains(path, <<".", ".">>)

\* is_safe_path
is_safe_path(path) ==
    ~Contains(path, <<".", ".">>) /\ ~StartsWith(path, <<"/">>)

\* str::split on one separator character: the pieces between separators,
\* empty pieces included.
RECURSIVE SplitOn(_, _)
SplitOn(s, sep) ==
    IF \A i \in 1..Len(s) : s[i] # sep THEN << s >>
    ELSE LET k == CHOOSE i \in 1..Len(s) :
                      s[i] = sep /\ \A j \in 1..(i - 1) : s[j] # sep
         IN  << SubSeq(s, 1, k - 1) >> \o SplitOn(SubSeq(s, k + 1, Len(s)), sep)

\* The shard's workspace directory, shard_workspace(data_dir, shard_id), and
\* the directory it lives in.
WorkspacesDir == << <<"workspaces">> >>
Workspace == WorkspacesDir \o << <<"shard">> >>

\* What the operating system makes of a list of path components walked from
\* a directory: "" and "." stay, ".." goes up (the root is its own parent).
RECURSIVE Walk(_, _)
Walk(dir, comps) ==
    IF comps = <<>> THEN dir
    ELSE LET c == Head(comps)
             next == IF c = <<>> \/ c = <<".">> THEN dir
                     ELSE IF c = <<".", ".">>
                          THEN (IF dir = <<>> THEN dir ELSE SubSeq(dir, 1, Len(dir) - 1))
                          ELSE Append(dir, c)
         IN  Walk(next, Tail(comps))

\* workspace.join(path) as the operating system resolves it: Path::join
\* replaces the base when the argument is absolute.
Resolve(path) ==
    IF StartsWith(path, <<"/">>) THEN Walk(<<>>, SplitOn(path, "/"))
    ELSE Walk(Workspace, SplitOn(path, "/"))

\* The path names a directory whatever exists on disk: it is empty or ends in
\* a separator or in a "." component.
DenotesDir(path) ==
    LET comps == SplitOn(path, "/")
    IN  comps[Len(comps)] \in { <<>>, <<".">> }

IsPrefix(p, q) == Len(p) <= Len(q) /\ SubSeq(q, 1, Len(p)) = p

\* Path::parent of a resolved path.
Parent(p) == IF p = <<>> THEN <<>> ELSE SubSeq(p, 1, Len(p) - 1)

\* The proper and improper prefixes of a path: the directories create_dir_all
\* makes sure exist.
Ancestors(p) == { SubSeq(p, 1, k) : k \in 0..Len(p) }

\* std::fs::create_dir_all succeeds unless the disk refuses or a file is in
\* the way.
CanCreateDirAll(p, files, io_ok) == io_ok /\ Ancestors(p) \cap files = {}

\* serde_json::Value arguments.  A string argument is Some(characters); None
\* stands for an absent key and for a value that is not a string (as_str
\* yields None for both).  timeout_secs keeps its JSON kind.
JsonInt(n) == [ kind |-> "int", v |-> n ]
JsonString == [ kind |-> "string", v |-> 0 ]

\* Value::as_u64: Some for a non-negative integer, None for anything else.
as_u64(value) ==
    IF value # None /\ value[1].kind = "int" /\ value[1].v >= 0
    THEN Some(value[1].v) ELSE None

NoArguments ==
    [ path |-> None, content |-> None, url |-> None, command |-> None,
      timeout_secs |-> None, language |-> None, code |-> None ]

\* URLs a call may carry.
UrlPool ==
    { <<"h", "t", "t", "p", ":", "/", "/", "x">>,
      <<"h", "t", "t", "p", "s", ":", "/", "/", "x">>,
      <<"f", "t", "p", ":", "/", "/", "x">>,
      <<"H", "T", "T", "P", ":", "/", "/", "x">>,
      <<"h", "t", "t", "p", "x">>,
      <<"x", "h", "t", "t", "p", ":", "/", "/">>,
      <<>> }

HttpPrefix == <<"h", "t", "t", "p", ":", "/", "/">>
HttpsPrefix == <<"h", "t", "t", "p", "s", ":", "/", "/">>

\* Mutant of the scheme test: any URL that mentions a scheme passes.
HasHttpScheme_Contains(url) == Contains(url, HttpPrefix) \/ Contains(url, HttpsPrefix)

\* execute_http_fetch: the scheme test.
HasHttpScheme(url) == StartsWith(url, HttpPrefix) \/ StartsWith(url, HttpsPrefix)

\* timeout_secs values a shell_exec call may carry.
TimeoutArgs ==
    { None, Some(JsonString), Some(JsonInt(0 - 1)), Some(JsonInt(0)),
      Some(JsonInt(45)), Some(JsonInt(120)), Some(JsonInt(121)) }

\* Seconds a spawned child may run; the last one stands for a child that
\* never exits.
NeverExits == 100000
Runtimes == { 0, 30, 31, 45, 120, 121, NeverExits }

\* Mutant of the effective timeout: the clamp is missing.
ShellTimeout_NoClamp(arguments) ==
    LET given == as_u64(arguments.timeout_secs)
    IN  IF given = None THEN 30 ELSE given[1]

\* execute_shell: args["timeout_secs"].as_u64().unwrap_or(30).min(120)
ShellTimeout(arguments) ==
    LET given == as_u64(arguments.timeout_secs)
        secs == IF given = None THEN 30 ELSE given[1]
    IN  IF secs < 120 THEN secs ELSE 120

\* command strings: characters, " " being the only white space.
CommandPool == { <<>>, <<" ">>, <<"p">>, <<"p", " ", "q">> }

\* str::split_whitespace: the non-empty pieces between white space.
split_whitespace(s) == SelectSeq(SplitOn(s, " "), LAMBDA piece : piece # <<>>)

\* The calls the executor is handed in the model: every tool with its
\* arguments present, absent or malformed, and a name that is no tool.
ExecutorCalls ==
    { [ id |-> "c1", name |-> "file_read", arguments |-> [NoArguments EXCEPT !.path = p] ]
        : p \in { None } \cup { Some(q) : q \in Paths } }
    \cup
    { [ id |-> "c1", name |-> "file_write",
        arguments |-> [NoArguments EXCEPT !.path = p, !.content = c] ]
        : p \in { None } \cup { Some(q) : q \in Paths }, c \in { None, Some(<<"x">>) } }
    \cup
    { [ id |-> "c1", name |-> "http_fetch", arguments |-> [NoArguments EXCEPT !.url = u] ]
        : u \in { None } \cup { Some(v) : v \in UrlPool } }
    \cup
    { [ id |-> "c1", name |-> "shell_exec",
        arguments |-> [NoArguments EXCEPT !.command = c, !.timeout_secs = t] ]
        : c \in { None } \cup { Some(d) : d \in CommandPool }, t \in TimeoutArgs }
    \cup
    { [ id |-> "c1", name |-> "code_eval",
        arguments |-> [NoArguments EXCEPT !.language = l, !.code = c] ]
        : l \in { None, Some("python"), Some("javascript"), Some("ruby") },
          c \in { None, Some(<<"x">>) } }
    \cup
    { [ id |-> "c1", name |-> "bogus", arguments |-> NoArguments ] }

\* An HTTP response body: ascii_prefix one-byte characters followed by
\* characters of the byte widths listed in tail.
BodyLimit == 50000
BodyPrefixes == { 0, BodyLimit - 1, BodyLimit }
RECURSIVE SumSeq(_)
SumSeq(q) == IF q = <<>> THEN 0 ELSE Head(q) + SumSeq(Tail(q))
Bodies == { [ ascii_prefix |-> n, tail |-> t ] :
              n \in BodyPrefixes, t \in SeqsUpTo({1, 2}, 2) }
\* String::len, in bytes
BodyLen(body) == body.ascii_prefix + SumSeq(body.tail)
\* str::is_char_boundary
IsCharBoundary(body, k) ==
    \/ k <= body.ascii_prefix
    \/ \E j \in 0..Len(body.tail) : k = body.ascii_prefix + SumSeq(SubSeq(body.tail, 1, j))

\* What the peer of an http_fetch call may do: the request fails (or the
\* client's 30 s timeout fires), reading the body fails, or a status and a
\* body arrive.
HttpAnswers ==
    { [ kind |-> "send_error", status |-> 0, body |-> [ascii_prefix |-> 0, tail |-> <<>>] ],
      [ kind |-> "read_error", status |-> 200, body |-> [ascii_prefix |-> 0, tail |-> <<>>] ] }
    \cup
    { [ kind |-> "body", status |-> st, body |-> b ] : st \in {200, 404}, b \in Bodies }

\* An operation the executor issues against the disk, the network or the
\* process table.
Effect(op, target) == [ op |-> op, target |-> target ]

\* The Result<String, String> of a tool implementation: ok, the kind of text
\* and the number the text carries (seconds, exit code, bytes), 0 if none.
ToolOk(what, n) == [ ok |-> TRUE, text |-> what, n |-> n ]
ToolErr(what, n) == [ ok |-> FALSE, text |-> what, n |-> n ]

\* execute_tool's wrapping of a tool implementation's result.
ToolResultOf(call, result) ==
    [ tool_call_id |-> call.id, tool_name |-> call.name,
      success |-> result.ok, output |-> << result.text, result.n >> ]

\* The executor at rest, before any call, on a disk where the directory
\* holding the workspaces exists.
ToolIdle ==
    /\ x_pc = "idle"
    /\ x_call = None
    /\ x_effects = <<>>
    /\ x_result = None
    /\ x_panicked = FALSE
    /\ x_before = None
    /\ x_timeout = None
    /\ x_runtime = 0
    /\ x_io_ok = TRUE
    /\ x_count = 0

\* No tool call is executed in detail: the disk is empty and stays so.
ToolParked == ToolIdle /\ fs_dirs = Ancestors(WorkspacesDir) /\ fs_files = {}

\* ------------------------------------------- lesson memory (db.rs, api.rs)
\* A text is the sequence of its maximal alphanumeric pieces (what
\* str::split on non-alphanumeric characters yields, empty pieces dropped).
\* TokenOf is what tokenize keeps of one piece: the piece in lower case, or
\* nothing ("") when it is shorter than three characters.
ShortPieces == { "in", "hi", "0", "1", "2", "3" }
TokenOf(piece) ==
    CASE piece \in ShortPieces -> ""
      [] piece = "Fix" -> "fix"
      [] piece = "Write" -> "write"
      [] piece = "Completed" -> "completed"
      [] piece = "Stopped" -> "stopped"
      [] piece = "MaxTurns" -> "maxturns"
      [] piece = "TurnTimeout" -> "turntimeout"
      [] piece = "InferenceError" -> "inferenceerror"
      [] OTHER -> piece

\* tokenize
tokenize(input) ==
    SelectSeq([ i \in 1..Len(input) |-> TokenOf(input[i]) ], LAMBDA t : t # "")

\* The HashSet built from a token list.
TokenSet(tokens) == { tokens[i] : i \in 1..Len(tokens) }

\* Ranks and similarities are fractions of RankOne, which every small
\* divisor (set sizes and counts up to 12, ten-thousandths of a score)
\* divides; other quotients are rounded down to a 6930000th.
RankOne == 6930000
Scaled(num, den) == (RankOne * num) \div den

\* jaccard / jaccard_similarity, as a fraction of RankOne
jaccard(a, b) ==
    IF a = <<>> \/ b = <<>> THEN 0
    ELSE Scaled(Cardinality(TokenSet(a) \cap TokenSet(b)),
                Cardinality(TokenSet(a) \cup TokenSet(b)))

\* near_duplicate / near_duplicate_lessons: same category and Jaccard of the
\* goal+approach tokens at least 0.82
near_duplicate(a, b) ==
    IF a.task_type # b.task_type THEN FALSE
    ELSE 100 * jaccard(tokenize(a.goal \o a.approach), tokenize(b.goal \o b.approach))
            >= 82 * RankOne

\* Scores are kept in ten-thousandths.
ScoreOne == 10000

\* lesson_rank, as a multiple of RankOne / 100.  Ages are counted in units of
\* 14 days, so recency is 1 / (1 + age).
lesson_rank(lesson, query_tokens, task_type, now) ==
    LET lexical == jaccard(query_tokens, tokenize(lesson.goal \o lesson.approach \o lesson.outcome))
        type_boost == IF lesson.task_type = task_type THEN 20 * RankOne ELSE 0
        helpful_rate == Scaled(lesson.times_helpful + 1, lesson.times_retrieved + 2)
        age == IF now > lesson.created_at THEN now - lesson.created_at ELSE 0
        recency == Scaled(1, 1 + age)
    IN  45 * lexical + 30 * (lesson.score * (RankOne \div ScoreOne))
          + 15 * helpful_rate + 10 * recency + type_boost

\* Variant of InsertByRank: an entry goes before the entries of equal rank.
RECURSIVE InsertByRank_BeforeEquals(_, _)
InsertByRank_BeforeEquals(sorted, entry) ==
    IF sorted = <<>> THEN << entry >>
    ELSE IF Head(sorted)[2] > entry[2]
         THEN << Head(sorted) >> \o InsertByRank_BeforeEquals(Tail(sorted), entry)
         ELSE << entry >> \o sorted

\* slice::sort_by with a descending comparison: stable, so entries of equal
\* rank keep their order.  Entries are << lesson, rank >> pairs.
RECURSIVE InsertByRank(_, _)
InsertByRank(sorted, entry) ==
    IF sorted = <<>> THEN << entry >>
    ELSE IF Head(sorted)[2] >= entry[2]
         THEN << Head(sorted) >> \o InsertByRank(Tail(sorted), entry)
         ELSE << entry >> \o sorted

RECURSIVE SortByRankDesc(_)
SortByRankDesc(entries) ==
    IF entries = <<>> THEN <<>>
    ELSE InsertByRank(SortByRankDesc(SubSeq(entries, 1, Len(entries) - 1)),
                      entries[Len(entries)])

\* The rows of one agent, most recent first (ORDER BY created_at DESC); rows
\* of equal created_at come in id order.
RECURSIVE InsertByCreated(_, _)
InsertByCreated(sorted, row) ==
    IF sorted = <<>> THEN << row >>
    ELSE IF Head(sorted).created_at >= row.created_at
         THEN << Head(sorted) >> \o InsertByCreated(Tail(sorted), row)
         ELSE << row >> \o sorted

RECURSIVE RecentFirst(_)
RecentFirst(rows) ==
    IF rows = <<>> THEN <<>>
    ELSE InsertByCreated(RecentFirst(SubSeq(rows, 1, Len(rows) - 1)), rows[Len(rows)])

\* The hard cap on the number of lessons returned, and the rank floors of
\* the two passes (hundredths).
RetrievalCap == 7
DbFloor == 22
HybridFloor == 18

\* Variant of SelectFrom: no floor ends the walk.
RECURSIVE SelectFrom_NoFloor(_, _, _, _, _)
SelectFrom_NoFloor(ranked, i, selected, target_max, floor) ==
    IF i > Len(ranked) THEN selected
    ELSE IF Len(selected) >= target_max THEN selected
    ELSE IF \E k \in 1..Len(selected) : near_duplicate(selected[k], ranked[i][1])
         THEN SelectFrom_NoFloor(ranked, i + 1, selected, target_max, floor)
         ELSE SelectFrom_NoFloor(ranked, i + 1, Append(selected, ranked[i][1]), target_max, floor)

\* The greedy selection loop shared by both passes: walk the ranked entries
\* from position i, stop at the cap, stop at the floor once three are
\* chosen, skip near-duplicates of what is already chosen.
RECURSIVE SelectFrom(_, _, _, _, _)
SelectFrom(ranked, i, selected, target_max, floor) ==
    IF i > Len(ranked) THEN selected
    ELSE IF Len(selected) >= target_max THEN selected
    ELSE IF Len(selected) >= 3 /\ ranked[i][2] < floor * RankOne THEN selected
    ELSE IF \E k \in 1..Len(selected) : near_duplicate(selected[k], ranked[i][1])
         THEN SelectFrom(ranked, i + 1, selected, target_max, floor)
         ELSE SelectFrom(ranked, i + 1, Append(selected, ranked[i][1]), target_max, floor)

\* The fallback fill of retrieve_relevant_lessons: the same walk over the
\* whole ranked list, without a floor.
RECURSIVE FillFrom(_, _, _, _)
FillFrom(ranked, i, selected, target_max) ==
    IF i > Len(ranked) THEN selected
    ELSE IF Len(selected) >= target_max THEN selected
    ELSE IF \E k \in 1..Len(selected) : near_duplicate(selected[k], ranked[i][1])
         THEN FillFrom(ranked, i + 1, selected, target_max)
         ELSE FillFrom(ranked, i + 1, Append(selected, ranked[i][1]), target_max)

Min(a, b) == IF a < b THEN a ELSE b
Max(a, b) == IF a > b THEN a ELSE b

\* Mutant of retrieve_relevant_lessons: the window of recent rows starts one
\* row late.
retrieve_relevant_lessons_SkipsNewest(table, shard_id, task, task_type, max_lessons, now) ==
    LET recent == RecentFirst(SelectSeq(table, LAMBDA l : l.shard_id = shard_id))
        rows == IF recent = <<>> THEN <<>> ELSE Tail(recent)
        query_tokens == tokenize(task)
        ranked == SortByRankDesc([ i \in 1..Len(rows) |->
                     << rows[i], lesson_rank(rows[i], query_tokens, task_type, now) >> ])
        target_max == Min(max_lessons, RetrievalCap)
        first == SelectFrom(ranked, 1, <<>>, target_max, DbFloor)
    IN  IF Len(first) < target_max THEN FillFrom(ranked, 1, first, target_max) ELSE first

\* Mutant of retrieve_relevant_lessons: the caller's max_lessons is taken as
\* it is, without the cap.
retrieve_relevant_lessons_NoCap(table, shard_id, task, task_type, max_lessons, now) ==
    LET rows == RecentFirst(SelectSeq(table, LAMBDA l : l.shard_id = shard_id))
        query_tokens == tokenize(task)
        ranked == SortByRankDesc([ i \in 1..Len(rows) |->
                     << rows[i], lesson_rank(rows[i], query_tokens, task_type, now) >> ])
        first == SelectFrom(ranked, 1, <<>>, max_lessons, DbFloor)
    IN  IF Len(first) < max_lessons THEN FillFrom(ranked, 1, first, max_lessons) ELSE first

\* retrieve_relevant_lessons on a readable table
retrieve_relevant_lessons(table, shard_id, task, task_type, max_lessons, now) ==
    LET rows == RecentFirst(SelectSeq(table, LAMBDA l : l.shard_id = shard_id))
        query_tokens == tokenize(task)
        ranked == SortByRankDesc([ i \in 1..Len(rows) |->
                     << rows[i], lesson_rank(rows[i], query_tokens, task_type, now) >> ])
        target_max == Min(max_lessons, RetrievalCap)
        first == SelectFrom(ranked, 1, <<>>, target_max, DbFloor)
    IN  IF Len(first) < target_max THEN FillFrom(ranked, 1, first, target_max) ELSE first

\* What the embedding gateway may answer: an error or a wrong number of
\* vectors ("failed"), or vectors whose cosine similarity to the query is the
\* same for all candidates, grows along the candidate list, or falls.
EmbedAnswers == { "failed", "flat", "rising", "falling" }

\* ((cosine + 1) / 2) of the candidate at position idx (from 0) of n, as a
\* fraction of RankOne.
Semantic(answer, idx, n) ==
    CASE answer = "rising" -> Scaled(idx + 1, n)
      [] answer = "falling" -> Scaled(n - idx, n)
      [] OTHER -> RankOne \div 2

\* hybrid_rank, as a multiple of RankOne / 100, clamped to [0, 1]
hybrid_rank(lesson, query_tokens, semantic, task_type) ==
    LET lexical == jaccard(query_tokens, tokenize(lesson.goal \o lesson.approach \o lesson.outcome))
        type_boost == IF lesson.task_type = task_type THEN 8 * RankOne ELSE 0
        helpful_rate == Scaled(lesson.times_helpful + 1, lesson.times_retrieved + 2)
        sum == 55 * semantic + 20 * lexical + 17 * (lesson.score * (RankOne \div ScoreOne))
                 + 8 * helpful_rate + type_boost
    IN  Max(0, Min(100 * RankOne, sum))

\* Variant of FallbackScore: the score grows with the position.
FallbackScore_Rising(idx) == 100 * RankOne + idx * RankOne

\* The score of the candidate at position idx (from 0) when no usable
\* vectors came back: 1.0 - idx * 0.01, as a multiple of RankOne / 100.
FallbackScore(idx) == 100 * RankOne - idx * RankOne

\* retrieve_lessons_hybrid: the prefilter (empty when the table cannot be
\* read), the embedding call (embed_texts fails also when the number of
\* vectors differs from the number of inputs), the re-ranking and the
\* second selection.
retrieve_lessons_hybrid(table, db_ok, shard_id, task, task_type, embed, now) ==
    LET candidates == IF db_ok
                      THEN retrieve_relevant_lessons(table, shard_id, task, task_type, 40, now)
                      ELSE <<>>
        n == Len(candidates)
        query_tokens == tokenize(task)
        scored == [ i \in 1..n |->
                     << candidates[i],
                        IF embed = "failed" THEN FallbackScore(i - 1)
                        ELSE hybrid_rank(candidates[i], query_tokens,
                                         Semantic(embed, i - 1, n), task_type) >> ]
    IN  IF candidates = <<>> THEN <<>>
        ELSE SelectFrom(SortByRankDesc(scored), 1, <<>>, RetrievalCap, HybridFloor)

\* Agents (shard ids) and the task texts of execute requests.
Agents == { "A", "B" }
Tasks == { <<"Fix", "parser", "tests">>, <<"hi">> }

\* infer_task_type: the first keyword group that the lower-cased task
\* mentions.  No piece of the modelled tasks contains a keyword without
\* being one.
infer_task_type(task) ==
    LET words == { TokenOf(task[i]) : i \in 1..Len(task) }
    IN  IF words \cap {"debug", "fix", "error", "bug"} # {} THEN "debug"
        ELSE IF words \cap {"write", "copy", "draft", "content"} # {} THEN "writing"
        ELSE IF words \cap {"research", "analyze", "compare"} # {} THEN "analysis"
        ELSE IF words \cap {"build", "implement", "code", "refactor"} # {} THEN "coding"
        ELSE "general"

\* What run_agent_loop may hand back (turn count, the tool results in order,
\* final response, stop reason, summed turn durations): a plain answer, an
\* answer after a successful tool call, an answer after a failed and a
\* successful call, and a loop stopped by an inference error at once.
LoopOutcome(n, results, final, reason, ms) ==
    [ turns |-> n, all_tool_results |-> results, final_response |-> final,
      stop_reason |-> reason, duration_ms |-> ms,
      all_success |-> \A i \in 1..Len(results) : results[i].success ]

\* A word of 899 one-byte characters followed by one two-byte character.
LongWord == "essay"

\* The UTF-8 encoding of a piece: its number of bytes, and the byte offsets
\* in it at which a character starts or the piece ends.
PieceLen(piece) == IF piece = LongWord THEN 901 ELSE Len(piece)
PieceBoundaries(piece) == IF piece = LongWord THEN (0..899) \cup { 901 } ELSE 0..Len(piece)

\* str::len: the number of bytes of a text, its pieces written with one
\* space between them.
RECURSIVE Utf8Len(_)
Utf8Len(input) ==
    IF input = <<>> THEN 0
    ELSE LET before == SubSeq(input, 1, Len(input) - 1)
         IN  (IF before = <<>> THEN 0 ELSE Utf8Len(before) + 1) + PieceLen(input[Len(input)])

\* str::is_char_boundary: byte offset max is where a character starts, or
\* the end of the text.
is_char_boundary(input, max) ==
    \/ max = 0
    \/ \E n \in 1..Len(input) :
          LET start == Utf8Len(SubSeq(input, 1, n)) - PieceLen(input[n])
          IN  max - start \in PieceBoundaries(input[n])

\* truncate: the input itself when it has at most max bytes, otherwise its
\* first max bytes followed by "...".  Slicing inside a character panics:
\* None.  Of a cut input the model keeps the pieces that end before the cut.
truncate(input, max) ==
    LET kept == { n \in 0..Len(input) : Utf8Len(SubSeq(input, 1, n)) <= max }
    IN  IF Utf8Len(input) <= max THEN Some(input)
        ELSE IF is_char_boundary(input, max)
             THEN Some(Append(SubSeq(input, 1, CHOOSE n \in kept : \A k \in kept : k <= n),
                              "..."))
             ELSE None

ToolRes(name, ok) == [ tool_name |-> name, success |-> ok, output |-> IF ok THEN "out" ELSE "err" ]

Outcome(kind) ==
    CASE kind = "plain" ->
           LoopOutcome(1, <<>>, Some(<<"done">>), "Completed", 1000)
      [] kind = "tool" ->
           LoopOutcome(2, << ToolRes("shell_exec", TRUE) >>, Some(<<"done">>), "Completed", 2000)
      [] kind = "failed tool" ->
           LoopOutcome(2, << ToolRes("shell_exec", FALSE), ToolRes("code_eval", TRUE) >>,
                       Some(<<"done">>), "Completed", 1000)
      [] kind = "long" ->
           LoopOutcome(1, <<>>, Some(<< LongWord >>), "Completed", 1000)
      [] OTHER -> LoopOutcome(0, <<>>, None, "InferenceError", 0)

LoopOutcomes ==
    { Outcome(kind) : kind \in { "plain", "tool", "failed tool", "long", "error" } }

\* unique_tool_names
RECURSIVE unique_tool_names(_)
unique_tool_names(results) ==
    IF results = <<>> THEN <<>>
    ELSE LET before == unique_tool_names(SubSeq(results, 1, Len(results) - 1))
             name == results[Len(results)].tool_name
         IN  IF \E i \in 1..Len(before) : before[i] = name THEN before
             ELSE Append(before, name)

\* The pieces of a number and of a tool name as they appear in a text.
NumberPiece(n) == CASE n = 0 -> "0" [] n = 1 -> "1" [] n = 2 -> "2" [] OTHER -> "3"
ToolPieces(name) ==
    CASE name = "shell_exec" -> <<"shell", "exec">>
      [] name = "code_eval" -> <<"code", "eval">>
      [] OTHER -> << name >>

RECURSIVE JoinToolPieces(_)
JoinToolPieces(names) ==
    IF names = <<>> THEN <<>> ELSE ToolPieces(Head(names)) \o JoinToolPieces(Tail(names))

\* summarize_approach
summarize_approach(loop, tools_used) ==
    IF tools_used = <<>>
    THEN << "Completed", "in", NumberPiece(loop.turns), "turns", "without", "tool",
            "calls", "stop", "reason", loop.stop_reason >>
    ELSE << "Completed", "in", NumberPiece(loop.turns), "turns", "with",
            NumberPiece(Len(loop.all_tool_results)), "tool", "calls", "using" >>
         \o JoinToolPieces(tools_used) \o << "stop", "reason", loop.stop_reason >>

\* collect_errors: the first three failed results, each as the tool's name
\* followed by its output cut at 220 bytes.
collect_errors(results) ==
    LET failed == SelectSeq(results, LAMBDA r : ~r.success)
    IN  [ i \in 1..Min(3, Len(failed)) |->
            << failed[i].tool_name >> \o truncate(<< failed[i].output >>, 220)[1] ]

\* collect_fixes
collect_fixes(results, had_errors, succeeded) ==
    LET successful == SelectSeq(results, LAMBDA r : r.success)
        recovered == IF had_errors /\ successful # <<>>
                     THEN << << "Recovered by switching to successful tools",
                                [ i \in 1..Len(successful) |-> successful[i].tool_name ] >> >>
                     ELSE <<>>
    IN  IF succeeded /\ recovered = <<>>
        THEN << << "Execution completed without tool-level failures.", <<>> >> >>
        ELSE recovered

\* estimate_extractor_confidence, estimate_applicability_confidence,
\* estimate_reusability, in hundredths
estimate_extractor_confidence(approach, outcome, tools_used, errors) ==
    Min(100, 35 + (IF approach # <<>> THEN 20 ELSE 0) + (IF outcome # <<>> THEN 20 ELSE 0)
               + (IF tools_used # <<>> THEN 15 ELSE 0) + (IF errors # <<>> THEN 10 ELSE 0))

estimate_applicability_confidence(success, task_type, tools_used) ==
    Min(100, (IF success THEN 55 ELSE 35) + (IF task_type # "general" THEN 20 ELSE 0)
               + (IF tools_used # <<>> THEN 15 ELSE 0))

estimate_reusability(success, tools_used, errors, fixes) ==
    Min(100, (IF success THEN 55 ELSE 30) + (IF tools_used # <<>> THEN 20 ELSE 0)
               + (IF errors # <<>> /\ fixes # <<>> THEN 15 ELSE 0))

\* insert_task_lesson: the initial score, in ten-thousandths
initial_score(success, extractor, applicability, reusability) ==
    Max(0, Min(ScoreOne, 15 * (IF success THEN 100 ELSE 0) + 30 * extractor
                           + 30 * applicability + 25 * reusability))

\* insert_task_lesson: the row written for a NewTaskLesson, with the
\* initial score and the counters at zero.
insert_task_lesson(id, lesson, now) ==
    [ id |-> id, shard_id |-> lesson.shard_id, action_id |-> lesson.action_id,
      task_type |-> lesson.task_type, goal |-> lesson.goal, approach |-> lesson.approach,
      tools_used |-> lesson.tools_used, outcome |-> lesson.outcome,
      errors |-> lesson.errors, fixes |-> lesson.fixes,
      duration_ms |-> lesson.duration_ms, success |-> lesson.success,
      extractor_confidence |-> lesson.extractor_confidence,
      applicability_confidence |-> lesson.applicability_confidence,
      reusability |-> lesson.reusability,
      score |-> initial_score(lesson.success, lesson.extractor_confidence,
                              lesson.applicability_confidence, lesson.reusability),
      artifact_path |-> lesson.artifact_path,
      times_retrieved |-> 0, times_helpful |-> 0, times_unhelpful |-> 0,
      created_at |-> now, updated_at |-> now ]

\* run_execution, lines 725-748: the extraction panics when one of its
\* calls of truncate slices a text inside a character.
ExtractionPanics(task, loop) ==
    LET failed == SelectSeq(loop.all_tool_results, LAMBDA r : ~r.success)
        outcome == IF loop.final_response # None THEN loop.final_response[1]
                   ELSE << "Stopped", loop.stop_reason >>
    IN  \/ \E i \in 1..Min(3, Len(failed)) : truncate(<< failed[i].output >>, 220) = None
        \/ truncate(task, 280) = None
        \/ truncate(outcome, 900) = None

\* run_execution, lines 725-787: the lesson extracted from a loop result,
\* as the row that insert_task_lesson writes for it.
ExtractLesson(id, shard_id, action_id, task, task_type, loop, artifact_ok, now) ==
    LET tools_used == unique_tool_names(loop.all_tool_results)
        approach == summarize_approach(loop, tools_used)
        errors == collect_errors(loop.all_tool_results)
        fixes == collect_fixes(loop.all_tool_results, errors # <<>>, loop.all_success)
        outcome == IF loop.final_response # None THEN loop.final_response[1]
                   ELSE << "Stopped", loop.stop_reason >>
        lesson ==
            [ shard_id |-> shard_id, action_id |-> action_id, task_type |-> task_type,
              goal |-> truncate(task, 280)[1], approach |-> approach,
              tools_used |-> tools_used,
              outcome |-> outcome, errors |-> errors, fixes |-> fixes,
              duration_ms |-> loop.duration_ms, success |-> loop.all_success,
              extractor_confidence |->
                  estimate_extractor_confidence(approach, outcome, tools_used, errors),
              applicability_confidence |->
                  estimate_applicability_confidence(loop.all_success, task_type, tools_used),
              reusability |-> estimate_reusability(loop.all_success, tools_used, errors, fixes),
              artifact_path |-> IF artifact_ok THEN "memories/tasks"
                                ELSE "memory://write_failed" ]
    IN  insert_task_lesson(id, lesson, now)

\* avg_success_duration_by_task_type: AVG(duration_ms) over the agent's
\* successful lessons of the category, cut to an integer; None without rows.
RECURSIVE SumDurations(_)
SumDurations(rows) ==
    IF rows = <<>> THEN 0 ELSE Head(rows).duration_ms + SumDurations(Tail(rows))

\* Variant of avg_success_duration_by_task_type: the average is taken over
\* the lessons of every agent.
avg_success_duration_by_task_type_AllAgents(table, shard_id, task_type) ==
    LET rows == SelectSeq(table, LAMBDA l : l.task_type = task_type /\ l.success)
    IN  IF rows = <<>> THEN None ELSE Some(SumDurations(rows) \div Len(rows))

avg_success_duration_by_task_type(table, shard_id, task_type) ==
    LET rows == SelectSeq(table, LAMBDA l : l.shard_id = shard_id
                                     /\ l.task_type = task_type /\ l.success)
    IN  IF rows = <<>> THEN None ELSE Some(SumDurations(rows) \div Len(rows))

\* Mutant of the feedback UPDATE: the row's success flag is rewritten too.
FeedbackRow_RewritesSuccess(row, helpful, now) ==
    [ row EXCEPT !.times_retrieved = @ + 1,
                 !.times_helpful = @ + (IF helpful THEN 1 ELSE 0),
                 !.times_unhelpful = @ + (IF helpful THEN 0 ELSE 1),
                 !.score = Min(ScoreOne, Max(0, @ + (IF helpful THEN 800 ELSE 0 - 500))),
                 !.success = helpful,
                 !.updated_at = now ]

\* apply_lesson_feedback: the UPDATE of one row
FeedbackRow(row, helpful, now) ==
    [ row EXCEPT !.times_retrieved = @ + 1,
                 !.times_helpful = @ + (IF helpful THEN 1 ELSE 0),
                 !.times_unhelpful = @ + (IF helpful THEN 0 ELSE 1),
                 !.score = Min(ScoreOne, Max(0, @ + (IF helpful THEN 800 ELSE 0 - 500))),
                 !.updated_at = now ]

\* An execution that has not started, and the memory tables of a keeper
\* that runs no execution.
IdleRun ==
    [ pc |-> "idle", shard_id |-> "", task |-> <<>>, task_type |-> "", candidates |-> <<>>,
      read_ok |-> TRUE, embedded |-> TRUE, vectors |-> "none", retrieved |-> <<>>,
      event_id |-> None,
      loop |-> None,
      lesson_id |-> None, baseline_read |-> TRUE, baseline |-> None,
      helpful |-> None, updates |-> 0, response |-> None,
      failed |-> FALSE ]

RunIds == { "r1", "r2" }

MemParked ==
    /\ task_lessons = <<>>
    /\ lesson_retrieval_events = <<>>
    /\ clock = 0
    /\ runs = [ r \in RunIds |-> IdleRun ]

\* ------------------------------------------------------- run_agent_loop
\* Variant of StartTurn: the range is taken as 0..=max_turns.
StartTurn_OffByOne ==
    /\ pc = "loop_head"
    /\ turn_number <= max_turns
    /\ turn_number' = turn_number + 1
    /\ inference_calls' = inference_calls + 1
    /\ responsive' \in BOOLEAN
    /\ pc' = "await_inference"
    /\ UNCHANGED << execVars, toolVars, memVars >>
    /\ UNCHANGED << tools, max_turns, conversation, turns, all_tool_results,
                    all_success, final_response, stop_reason, calls, call_idx,
                    turn_results, loop_result, inference_log, tool_execs >>

\* `for turn_number in 1..=max_turns`, next iteration: issue the inference
\* call of the turn under the per-turn timeout.
StartTurn ==
    /\ pc = "loop_head"
    /\ turn_number < max_turns
    /\ turn_number' = turn_number + 1
    /\ inference_calls' = inference_calls + 1
    /\ responsive' \in BOOLEAN
    /\ pc' = "await_inference"
    /\ UNCHANGED << execVars, toolVars, memVars >>
    /\ UNCHANGED << tools, max_turns, conversation, turns, all_tool_results,
                    all_success, final_response, stop_reason, calls, call_idx,
                    turn_results, loop_result, inference_log, tool_execs >>

\* The range is exhausted: fall out of the for loop.
LoopExhausted ==
    /\ pc = "loop_head"
    /\ turn_number >= max_turns
    /\ pc' = "return"
    /\ UNCHANGED << execVars, toolVars, memVars >>
    /\ UNCHANGED << tools, max_turns, inference_calls, turn_number, conversation, turns,
                    all_tool_results, all_success, final_response, stop_reason,
                    calls, call_idx, turn_results, loop_result, responsive,
                    inference_log, tool_execs >>

\* Ok(Err(e)): the gateway answered with an error.
InferenceFailed ==
    /\ pc = "await_inference"
    /\ responsive
    /\ stop_reason' = "InferenceError"
    /\ inference_log' = Append(inference_log, "error")
    /\ pc' = "return"
    /\ UNCHANGED << execVars, toolVars, memVars >>
    /\ UNCHANGED << tools, max_turns, inference_calls, turn_number, conversation, turns,
                    all_tool_results, all_success, final_response, calls,
                    call_idx, turn_results, loop_result, responsive,
                    tool_execs >>

\* Variant of InferenceTimedOut: `continue` in place of `break`.
InferenceTimedOut_Continue ==
    /\ pc = "await_inference"
    /\ stop_reason' = "TurnTimeout"
    /\ inference_log' = Append(inference_log, "timeout")
    /\ pc' = "loop_head"
    /\ UNCHANGED << execVars, toolVars, memVars >>
    /\ UNCHANGED << tools, max_turns, inference_calls, turn_number, conversation, turns,
                    all_tool_results, all_success, final_response, calls,
                    call_idx, turn_results, loop_result, responsive,
                    tool_execs >>

\* Err(_): tokio::time::timeout elapsed before the gateway answered.
InferenceTimedOut ==
    /\ pc = "await_inference"
    /\ stop_reason' = "TurnTimeout"
    /\ inference_log' = Append(inference_log, "timeout")
    /\ pc' = "return"
    /\ UNCHANGED << execVars, toolVars, memVars >>
    /\ UNCHANGED << tools, max_turns, inference_calls, turn_number, conversation, turns,
                    all_tool_results, all_success, final_response, calls,
                    call_idx, turn_results, loop_result, responsive,
                    tool_execs >>

\* Variant of InferenceText: final_response is not recorded.
InferenceText_NoFinal(content) ==
    /\ pc = "await_inference"
    /\ responsive
    /\ turns' = Append(turns, [ turn_number |-> turn_number,
                                inference_result |-> TextResult(content),
                                tool_results |-> <<>> ])
    /\ stop_reason' = "Completed"
    /\ inference_log' = Append(inference_log, "text")
    /\ pc' = "return"
    /\ UNCHANGED << execVars, toolVars, memVars >>
    /\ UNCHANGED << tools, max_turns, inference_calls, turn_number, conversation,
                    all_tool_results, all_success, final_response, calls,
                    call_idx, turn_results, loop_result, responsive,
                    tool_execs >>

\* Ok(Ok(InferenceResult::Text { content })).
InferenceText(content) ==
    /\ pc = "await_inference"
    /\ responsive
    /\ final_response' = Some(content)
    /\ turns' = Append(turns, [ turn_number |-> turn_number,
                                inference_result |-> TextResult(content),
                                tool_results |-> <<>> ])
    /\ stop_reason' = "Completed"
    /\ inference_log' = Append(inference_log, "text")
    /\ pc' = "return"
    /\ UNCHANGED << execVars, toolVars, memVars >>
    /\ UNCHANGED << tools, max_turns, inference_calls, turn_number, conversation, all_tool_results,
                    all_success, calls, call_idx, turn_results, loop_result,
                    responsive, tool_execs >>

\* Ok(Ok(InferenceResult::ToolCalls { calls })): push the assistant message
\* and enter `for call in calls`.
InferenceToolCalls(cs) ==
    /\ pc = "await_inference"
    /\ responsive
    /\ Len(tool_execs) + Len(cs) <= MaxToolCalls
    /\ conversation' = Append(conversation, assistant_tool_calls(cs))
    /\ calls' = cs
    /\ call_idx' = 1
    /\ turn_results' = <<>>
    /\ inference_log' = Append(inference_log, "tool_calls")
    /\ pc' = "tool_loop"
    /\ UNCHANGED << execVars, toolVars, memVars >>
    /\ UNCHANGED << tools, max_turns, inference_calls, turn_number, turns, all_tool_results,
                    all_success, final_response, stop_reason, loop_result,
                    responsive, tool_execs >>

\* executor::execute_tool(data_dir, shard_id, call) is called and awaited.
\* Only a tool that waits for a process or a peer can fail to answer.
ToolStart ==
    /\ pc = "tool_loop"
    /\ call_idx <= Len(calls)
    /\ tool_execs' = Append(tool_execs, [ turn |-> turn_number, call |-> calls[call_idx] ])
    /\ responsive' \in (IF calls[call_idx].name \in SuspendingTools THEN BOOLEAN ELSE {TRUE})
    /\ pc' = "await_tool"
    /\ UNCHANGED << execVars, toolVars, memVars >>
    /\ UNCHANGED << tools, max_turns, inference_calls, turn_number, conversation, turns,
                    all_tool_results, all_success, final_response, stop_reason,
                    calls, call_idx, turn_results, loop_result, inference_log >>

\* Variant of RecordToolResult: all_success follows the last result.
RecordToolResult_LastWins(result) ==
    /\ conversation' = Append(conversation,
                              tool_result(calls[call_idx].id, calls[call_idx].name, result.output))
    /\ all_success' = result.success
    /\ turn_results' = Append(turn_results, result)
    /\ call_idx' = call_idx + 1
    /\ pc' = "tool_loop"
    /\ UNCHANGED << execVars, toolVars, memVars >>
    /\ UNCHANGED << tools, max_turns, inference_calls, turn_number, turns, all_tool_results,
                    final_response, stop_reason, calls, loop_result,
                    responsive, inference_log, tool_execs >>

\* Variant of RecordToolResult: the tool message names the turn's first call.
RecordToolResult_FirstCall(result) ==
    /\ conversation' = Append(conversation,
                              tool_result(calls[1].id, calls[1].name, result.output))
    /\ all_success' = (IF ~result.success THEN FALSE ELSE all_success)
    /\ turn_results' = Append(turn_results, result)
    /\ call_idx' = call_idx + 1
    /\ pc' = "tool_loop"
    /\ UNCHANGED << execVars, toolVars, memVars >>
    /\ UNCHANGED << tools, max_turns, inference_calls, turn_number, turns, all_tool_results,
                    final_response, stop_reason, calls, loop_result,
                    responsive, inference_log, tool_execs >>

\* Variant of RecordToolResult: a failed call ends the turn's tool loop.
RecordToolResult_BreakOnFail(result) ==
    /\ conversation' = Append(conversation,
                              tool_result(calls[call_idx].id, calls[call_idx].name, result.output))
    /\ all_success' = (IF ~result.success THEN FALSE ELSE all_success)
    /\ turn_results' = Append(turn_results, result)
    /\ call_idx' = (IF result.success THEN call_idx + 1 ELSE Len(calls) + 1)
    /\ pc' = "tool_loop"
    /\ UNCHANGED << execVars, toolVars, memVars >>
    /\ UNCHANGED << tools, max_turns, inference_calls, turn_number, turns, all_tool_results,
                    final_response, stop_reason, calls, loop_result,
                    responsive, inference_log, tool_execs >>

\* The body of `for call in calls` after execute_tool returned `result`.
RecordToolResult(result) ==
    /\ conversation' = Append(conversation,
                              tool_result(calls[call_idx].id, calls[call_idx].name, result.output))
    /\ all_success' = (IF ~result.success THEN FALSE ELSE all_success)
    /\ turn_results' = Append(turn_results, result)
    /\ call_idx' = call_idx + 1
    /\ pc' = "tool_loop"
    /\ UNCHANGED << execVars, toolVars, memVars >>
    /\ UNCHANGED << tools, max_turns, inference_calls, turn_number, turns, all_tool_results,
                    final_response, stop_reason, calls, loop_result,
                    responsive, inference_log, tool_execs >>

\* execute_tool returns with the tool's own Ok or Err.
ToolFinish(outcome) ==
    /\ pc = "await_tool"
    /\ responsive
    /\ outcome \in ToolOutcomes(calls[call_idx].name)
    /\ RecordToolResult(WrapToolResult(calls[call_idx], outcome))

\* execute_tool returns because the tool's timeout elapsed.
ToolTimedOut ==
    /\ pc = "await_tool"
    /\ calls[call_idx].name \in TimedTools
    /\ RecordToolResult(WrapToolResult(calls[call_idx], TimeoutOutcome))

\* Variant of EndTurn: the turn's results are not added to all_tool_results.
EndTurn_NoExtend ==
    /\ pc = "tool_loop"
    /\ call_idx > Len(calls)
    /\ turns' = Append(turns, [ turn_number |-> turn_number,
                                inference_result |-> ToolCallsResult(calls),
                                tool_results |-> turn_results ])
    /\ pc' = "loop_head"
    /\ UNCHANGED << execVars, toolVars, memVars >>
    /\ UNCHANGED << tools, max_turns, inference_calls, turn_number, conversation,
                    all_tool_results, all_success, final_response, stop_reason,
                    calls, call_idx, turn_results, loop_result, responsive,
                    inference_log, tool_execs >>

\* `for call in calls` is over: extend all_tool_results, push the turn.
EndTurn ==
    /\ pc = "tool_loop"
    /\ call_idx > Len(calls)
    /\ all_tool_results' = all_tool_results \o turn_results
    /\ turns' = Append(turns, [ turn_number |-> turn_number,
                                inference_result |-> ToolCallsResult(calls),
                                tool_results |-> turn_results ])
    /\ pc' = "loop_head"
    /\ UNCHANGED << execVars, toolVars, memVars >>
    /\ UNCHANGED << tools, max_turns, inference_calls, turn_number, conversation, all_success,
                    final_response, stop_reason, calls, call_idx, turn_results,
                    loop_result, responsive, inference_log, tool_execs >>

\* The AgentLoopResult the function returns.
Return ==
    /\ pc = "return"
    /\ loop_result' = Some([ turns |-> turns,
                             final_response |-> final_response,
                             total_tool_calls |-> Len(all_tool_results),
                             all_tool_results |-> all_tool_results,
                             all_success |-> all_success,
                             stop_reason |-> stop_reason ])
    /\ pc' = "done"
    /\ UNCHANGED << execVars, toolVars, memVars >>
    /\ UNCHANGED << tools, max_turns, inference_calls, turn_number, conversation, turns,
                    all_tool_results, all_success, final_response, stop_reason,
                    calls, call_idx, turn_results, responsive, inference_log,
                    tool_execs >>

\* One run of the loop; no HTTP request is in progress.
Init == LoopInit /\ ExecInit /\ ToolParked /\ MemParked

Next ==
    \/ StartTurn
    \/ LoopExhausted
    \/ InferenceFailed
    \/ InferenceTimedOut
    \/ \E content \in Contents : InferenceText(content)
    \/ \E cs \in CallLists : InferenceToolCalls(cs)
    \/ ToolStart
    \/ \E outcome \in AllToolOutcomes : ToolFinish(outcome)
    \/ ToolTimedOut
    \/ EndTurn
    \/ Return

Spec == Init /\ [][Next]_vars

\* The scheduler runs the loop's task whenever it can take a step, and a
\* timer that is armed fires.
FairSpec == Spec /\ WF_vars(Next)

\* ------------------------------------------------------------- db.rs
\* get_shard_by_id: Ok(Some(row)) or a database error (None here).
get_shard_by_id(db_ok) == IF db_ok THEN Some(db_shard) ELSE None

\* update_shard: the row after the call.  The UPDATE sets every mutable
\* column, execution_state included, from the caller's Shard value; when the
\* call fails the row is untouched.  Every caller discards the Result.
update_shard(shard, db_ok) == IF db_ok THEN shard ELSE db_shard

\* ------------------------------------------------------------- api.rs
ExecuteHandler(r) == << "execute", r >>
OtherHandler(h) == << "other", h >>

\* tokio's RwLock is write-preferring: read() waits while a writer is queued.
CanRead == rw_writers = {}
\* write() is granted when no read guard is held.
CanWrite(h) == h \in rw_writers /\ rw_readers = {}

\* execute_task: take the read guard and load the shard.  The id of the
\* request names the shard or (known = FALSE) no shard at all.
ExecuteTaskRead(r, known, db_ok) ==
    /\ e_pc[r] = "new"
    /\ CanRead
    /\ IF db_ok /\ ~known
       THEN /\ e_response' = [e_response EXCEPT ![r] = "not_found"]
            /\ e_pc' = [e_pc EXCEPT ![r] = "done"]
            /\ UNCHANGED << e_shard, rw_readers >>
       ELSE IF db_ok
       THEN /\ e_shard' = [e_shard EXCEPT ![r] = get_shard_by_id(db_ok)]
            /\ rw_readers' = rw_readers \cup { ExecuteHandler(r) }
            /\ e_pc' = [e_pc EXCEPT ![r] = "validate"]
            /\ UNCHANGED e_response
       ELSE /\ e_response' = [e_response EXCEPT ![r] = "db_error"]
            /\ e_pc' = [e_pc EXCEPT ![r] = "done"]
            /\ UNCHANGED << e_shard, rw_readers >>
    /\ UNCHANGED << db_shard, rw_writers, jobs, e_background, e_loop,
                    h_pc, h_shard >>
    /\ UNCHANGED polled
    /\ UNCHANGED << loopVars, toolVars, memVars >>

\* Variant of ExecuteTaskAdmit: the shard is marked executing before the
\* owner gate.
ExecuteTaskAdmit_MarksBeforeGate(r, header, background, db_ok) ==
    /\ e_pc[r] = "validate"
    /\ LET shard == e_shard[r][1]
           executing == [shard EXCEPT !.execution_state = "executing"]
       IN  IF shard.execution_state # "idle"
           THEN /\ e_response' = [e_response EXCEPT ![r] = "conflict"]
                /\ e_pc' = [e_pc EXCEPT ![r] = "done"]
                /\ e_shard' = [e_shard EXCEPT ![r] = None]
                /\ UNCHANGED << db_shard, e_background, rw_writers >>
           ELSE IF shard.owner_id # None /\ header # shard.owner_id
           THEN /\ e_response' = [e_response EXCEPT ![r] = "forbidden"]
                /\ e_pc' = [e_pc EXCEPT ![r] = "done"]
                /\ e_shard' = [e_shard EXCEPT ![r] = None]
                /\ db_shard' = update_shard(executing, db_ok)
                /\ UNCHANGED << e_background, rw_writers >>
           ELSE /\ e_shard' = [e_shard EXCEPT ![r] = Some(executing)]
                /\ db_shard' = update_shard(executing, db_ok)
                /\ e_background' = [e_background EXCEPT ![r] = background]
                /\ e_pc' = [e_pc EXCEPT ![r] =
                              IF background THEN "job_insert" ELSE "run_execution"]
                /\ rw_writers' = IF background
                                 THEN rw_writers \cup { ExecuteHandler(r) }
                                 ELSE rw_writers
                /\ UNCHANGED e_response
    /\ rw_readers' = rw_readers \ { ExecuteHandler(r) }
    /\ UNCHANGED << jobs, e_loop, h_pc, h_shard >>
    /\ UNCHANGED polled
    /\ UNCHANGED << loopVars, toolVars, memVars >>

\* execute_task: the idle check, the owner gate, then mark the local Shard
\* executing and write it back; the read guard is dropped at the end of the
\* block.  A background request goes on to state.write().
ExecuteTaskAdmit(r, header, background, db_ok) ==
    /\ e_pc[r] = "validate"
    /\ LET shard == e_shard[r][1]
           executing == [shard EXCEPT !.execution_state = "executing"]
       IN  IF shard.execution_state # "idle"
           THEN /\ e_response' = [e_response EXCEPT ![r] = "conflict"]
                /\ e_pc' = [e_pc EXCEPT ![r] = "done"]
                /\ e_shard' = [e_shard EXCEPT ![r] = None]
                /\ UNCHANGED << db_shard, e_background, rw_writers >>
           ELSE IF shard.owner_id # None /\ header # shard.owner_id
           THEN /\ e_response' = [e_response EXCEPT ![r] = "forbidden"]
                /\ e_pc' = [e_pc EXCEPT ![r] = "done"]
                /\ e_shard' = [e_shard EXCEPT ![r] = None]
                /\ UNCHANGED << db_shard, e_background, rw_writers >>
           ELSE /\ e_shard' = [e_shard EXCEPT ![r] = Some(executing)]
                /\ db_shard' = update_shard(executing, db_ok)
                /\ e_background' = [e_background EXCEPT ![r] = background]
                /\ e_pc' = [e_pc EXCEPT ![r] =
                              IF background THEN "job_insert" ELSE "run_execution"]
                /\ rw_writers' = IF background
                                 THEN rw_writers \cup { ExecuteHandler(r) }
                                 ELSE rw_writers
                /\ UNCHANGED e_response
    /\ rw_readers' = rw_readers \ { ExecuteHandler(r) }
    /\ UNCHANGED << jobs, e_loop, h_pc, h_shard >>
    /\ UNCHANGED polled
    /\ UNCHANGED << loopVars, toolVars, memVars >>

\* execute_task, background mode: insert the Running job under the write
\* guard, spawn the pipeline and answer 202 with the job id.
ExecuteTaskInsertJob(r) ==
    /\ e_pc[r] = "job_insert"
    /\ CanWrite(ExecuteHandler(r))
    /\ jobs' = [jobs EXCEPT ![r] = Some([ status |-> "running",
                                          result |-> None, error |-> None ])]
    /\ rw_writers' = rw_writers \ { ExecuteHandler(r) }
    /\ e_response' = [e_response EXCEPT ![r] = "accepted"]
    /\ e_pc' = [e_pc EXCEPT ![r] = "run_execution"]
    /\ UNCHANGED << db_shard, rw_readers, e_shard, e_background, e_loop,
                    h_pc, h_shard >>
    /\ UNCHANGED polled
    /\ UNCHANGED << loopVars, toolVars, memVars >>

\* run_execution from its first line to the shard write-back: run_agent_loop
\* returns with some stop reason, the local Shard is set idle and written
\* with `let _ = db::update_shard`.  Nothing between the loop's return and
\* the write touches shared state, and the write does not depend on the stop
\* reason.
RunExecutionLoop(r, reason, db_ok) ==
    /\ e_pc[r] = "run_execution"
    /\ reason \in StopReasons
    /\ e_loop' = [e_loop EXCEPT ![r] = Some("AgentLoopResult")]
    /\ LET idle == [e_shard[r][1] EXCEPT !.execution_state = "idle"]
       IN  /\ e_shard' = [e_shard EXCEPT ![r] = Some(idle)]
           /\ db_shard' = update_shard(idle, db_ok)
    /\ e_pc' = [e_pc EXCEPT ![r] = "bookkeeping"]
    /\ UNCHANGED << rw_readers, rw_writers, jobs, e_background, e_response,
                    h_pc, h_shard >>
    /\ UNCHANGED polled
    /\ UNCHANGED << loopVars, toolVars, memVars >>

\* run_execution: action log, artifact, lesson and feedback steps (none of
\* them touches the shard row), then Ok(ExecuteResponse).  The blocking
\* caller answers 200; the spawned task goes on to state.write().  When the
\* extraction panics the task ends there: the blocking caller gets no
\* answer, the spawned task never reaches state.write().
RunExecutionFinish(r, panics) ==
    /\ e_pc[r] = "bookkeeping"
    /\ IF panics
       THEN /\ e_pc' = [e_pc EXCEPT ![r] = "panicked"]
            /\ e_loop' = [e_loop EXCEPT ![r] = None]
            /\ e_shard' = [e_shard EXCEPT ![r] = None]
            /\ UNCHANGED << e_response, rw_writers >>
       ELSE IF e_background[r]
       THEN /\ rw_writers' = rw_writers \cup { ExecuteHandler(r) }
            /\ e_pc' = [e_pc EXCEPT ![r] = "job_write"]
            /\ UNCHANGED << e_response, e_loop, e_shard >>
       ELSE /\ e_response' = [e_response EXCEPT ![r] = "ok"]
            /\ e_pc' = [e_pc EXCEPT ![r] = "done"]
            /\ e_loop' = [e_loop EXCEPT ![r] = None]
            /\ e_shard' = [e_shard EXCEPT ![r] = None]
            /\ UNCHANGED rw_writers
    /\ UNCHANGED << db_shard, rw_readers, jobs, e_background,
                    h_pc, h_shard >>
    /\ UNCHANGED polled
    /\ UNCHANGED << loopVars, toolVars, memVars >>

\* Variant of FinishJob: the status is set and the result is left out.
FinishJob_StatusOnly(job, result) ==
    [ job EXCEPT !.status = IF result.ok THEN "completed" ELSE "failed" ]

\* The match on run_execution's Result in the spawned task: Ok sets the
\* status completed and the result, Err sets failed and the error.
FinishJob(job, result) ==
    IF result.ok THEN [ job EXCEPT !.status = "completed", !.result = Some(result.value) ]
    ELSE [ job EXCEPT !.status = "failed", !.error = Some(result.value) ]

\* The spawned task stores the pipeline's result in the job table;
\* run_execution has no statement that returns Err.
ExecuteTaskWriteJob(r) ==
    /\ e_pc[r] = "job_write"
    /\ CanWrite(ExecuteHandler(r))
    /\ jobs' = [jobs EXCEPT ![r] =
                  IF jobs[r] # None
                  THEN Some(FinishJob(jobs[r][1], [ ok |-> TRUE, value |-> e_loop[r][1] ]))
                  ELSE None]
    /\ rw_writers' = rw_writers \ { ExecuteHandler(r) }
    /\ e_loop' = [e_loop EXCEPT ![r] = None]
    /\ e_shard' = [e_shard EXCEPT ![r] = None]
    /\ e_pc' = [e_pc EXCEPT ![r] = "done"]
    /\ UNCHANGED << db_shard, rw_readers, e_background, e_response,
                    h_pc, h_shard >>
    /\ UNCHANGED polled
    /\ UNCHANGED << loopVars, toolVars, memVars >>

\* train_shard: take the read guard and load the shard; the guard is held
\* across the inference call.
TrainShardRead(h, db_ok) ==
    /\ h_pc[h] = "new"
    /\ CanRead
    /\ IF db_ok
       THEN /\ h_shard' = [h_shard EXCEPT ![h] = get_shard_by_id(db_ok)]
            /\ rw_readers' = rw_readers \cup { OtherHandler(h) }
            /\ h_pc' = [h_pc EXCEPT ![h] = "inference"]
       ELSE /\ h_pc' = [h_pc EXCEPT ![h] = "done"]
            /\ UNCHANGED << h_shard, rw_readers >>
    /\ UNCHANGED << db_shard, rw_writers, jobs, e_pc, e_shard, e_background,
                    e_response, e_loop >>
    /\ UNCHANGED polled
    /\ UNCHANGED << loopVars, toolVars, memVars >>

\* train_shard: the inference call returned; on success the local Shard
\* (xp, level, last_interaction changed) is written back with update_shard.
TrainShardFinish(h, inference_ok, db_ok) ==
    /\ h_pc[h] = "inference"
    /\ db_shard' = IF inference_ok THEN update_shard(h_shard[h][1], db_ok)
                   ELSE db_shard
    /\ rw_readers' = rw_readers \ { OtherHandler(h) }
    /\ h_shard' = [h_shard EXCEPT ![h] = None]
    /\ h_pc' = [h_pc EXCEPT ![h] = "done"]
    /\ UNCHANGED << rw_writers, jobs, e_pc, e_shard, e_background, e_response,
                    e_loop >>
    /\ UNCHANGED polled
    /\ UNCHANGED << loopVars, toolVars, memVars >>

\* release_shard_handler: take the read guard and load the shard; the guard
\* is held across the chain::set_wild call.
ReleaseShardRead(h, db_ok) ==
    /\ h_pc[h] = "new"
    /\ CanRead
    /\ IF db_ok
       THEN /\ h_shard' = [h_shard EXCEPT ![h] = get_shard_by_id(db_ok)]
            /\ rw_readers' = rw_readers \cup { OtherHandler(h) }
            /\ h_pc' = [h_pc EXCEPT ![h] = "set_wild"]
       ELSE /\ h_pc' = [h_pc EXCEPT ![h] = "done"]
            /\ UNCHANGED << h_shard, rw_readers >>
    /\ UNCHANGED << db_shard, rw_writers, jobs, e_pc, e_shard, e_background,
                    e_response, e_loop >>
    /\ UNCHANGED polled
    /\ UNCHANGED << loopVars, toolVars, memVars >>

\* release_shard_handler: whatever set_wild returned, mark the local Shard
\* wild and unowned and write it back with update_shard.
ReleaseShardFinish(h, db_ok) ==
    /\ h_pc[h] = "set_wild"
    /\ LET released == [h_shard[h][1] EXCEPT !.is_wild = TRUE, !.owner_id = None]
       IN  db_shard' = update_shard(released, db_ok)
    /\ rw_readers' = rw_readers \ { OtherHandler(h) }
    /\ h_shard' = [h_shard EXCEPT ![h] = None]
    /\ h_pc' = [h_pc EXCEPT ![h] = "done"]
    /\ UNCHANGED << rw_writers, jobs, e_pc, e_shard, e_background, e_response,
                    e_loop >>
    /\ UNCHANGED polled
    /\ UNCHANGED << loopVars, toolVars, memVars >>

\* The ids a poller asks for: the ids of the execute requests (a request's
\* job has the request's number as its id) and 0, which no job ever has.
PolledIds == { 0 } \cup ExecuteReqs

\* Variant of get_job: a job is found once it has left the running status.
get_job_OnlyFinished(table, id) ==
    IF id \in DOMAIN table /\ table[id] # None /\ table[id][1].status # "running"
    THEN table[id] ELSE None

\* get_job: the job's clone, or None for 404 "Job not found".
get_job(table, id) == IF id \in DOMAIN table THEN table[id] ELSE None

\* GET /api/jobs/{id}: take the read guard, look the id up, answer.
GetJob(id) ==
    /\ CanRead
    /\ polled' = Some([ id |-> id, answer |-> get_job(jobs, id) ])
    /\ UNCHANGED << db_shard, rw_readers, rw_writers, jobs, e_pc, e_shard,
                    e_background, e_response, e_loop, h_pc, h_shard >>
    /\ UNCHANGED << loopVars, toolVars, memVars >>

\* Concurrent requests against one shard; the loop variables are parked.
ExecSpecInit ==
    /\ db_shard \in { SpawnedShard, OwnedShard }
    /\ HandlersIdle
    /\ LoopInit /\ max_turns = 0 /\ tools = allowed_tools(ShardCapabilities(FALSE))
    /\ ToolParked /\ MemParked

ExecNext ==
    \/ \E r \in ExecuteReqs, known \in BOOLEAN, db_ok \in BOOLEAN :
          ExecuteTaskRead(r, known, db_ok)
    \/ \E r \in ExecuteReqs, header \in OwnerHeaders, background \in BOOLEAN,
          db_ok \in BOOLEAN : ExecuteTaskAdmit(r, header, background, db_ok)
    \/ \E r \in ExecuteReqs : ExecuteTaskInsertJob(r)
    \/ \E r \in ExecuteReqs, reason \in StopReasons, db_ok \in BOOLEAN :
          RunExecutionLoop(r, reason, db_ok)
    \/ \E r \in ExecuteReqs, panics \in BOOLEAN : RunExecutionFinish(r, panics)
    \/ \E r \in ExecuteReqs : ExecuteTaskWriteJob(r)
    \/ \E h \in OtherReqs, db_ok \in BOOLEAN : TrainShardRead(h, db_ok)
    \/ \E h \in OtherReqs, inference_ok \in BOOLEAN, db_ok \in BOOLEAN :
          TrainShardFinish(h, inference_ok, db_ok)
    \/ \E h \in OtherReqs, db_ok \in BOOLEAN : ReleaseShardRead(h, db_ok)
    \/ \E h \in OtherReqs, db_ok \in BOOLEAN : ReleaseShardFinish(h, db_ok)

ExecSpec == ExecSpecInit /\ [][ExecNext]_vars

\* Execute requests, their spawned pipelines and pollers of the job table;
\* the train and release handlers, which never touch the job table, are
\* left out.
JobNext ==
    \/ \E r \in ExecuteReqs, known \in BOOLEAN, db_ok \in BOOLEAN :
          ExecuteTaskRead(r, known, db_ok)
    \/ \E r \in ExecuteReqs, header \in OwnerHeaders, background \in BOOLEAN,
          db_ok \in BOOLEAN : ExecuteTaskAdmit(r, header, background, db_ok)
    \/ \E r \in ExecuteReqs : ExecuteTaskInsertJob(r)
    \/ \E r \in ExecuteReqs, reason \in StopReasons, db_ok \in BOOLEAN :
          RunExecutionLoop(r, reason, db_ok)
    \/ \E r \in ExecuteReqs, panics \in BOOLEAN : RunExecutionFinish(r, panics)
    \/ \E r \in ExecuteReqs : ExecuteTaskWriteJob(r)
    \/ \E id \in PolledIds : GetJob(id)

JobSpec == ExecSpecInit /\ [][JobNext]_vars

\* Scheduling of the job pipeline: the runtime keeps polling the handler
\* future and the spawned task, so each of their steps is taken once it
\* stays possible; tokio's RwLock queues its waiters first-in first-out.
\* Arrivals (the load of a request) and pollers are under no obligation.
JobFairness ==
    \A r \in ExecuteReqs :
        /\ WF_vars(\E header \in OwnerHeaders, background \in BOOLEAN, db_ok \in BOOLEAN :
                      ExecuteTaskAdmit(r, header, background, db_ok))
        /\ WF_vars(ExecuteTaskInsertJob(r))
        /\ WF_vars(\E reason \in StopReasons, db_ok \in BOOLEAN :
                      RunExecutionLoop(r, reason, db_ok))
        /\ WF_vars(\E panics \in BOOLEAN : RunExecutionFinish(r, panics))
        /\ WF_vars(ExecuteTaskWriteJob(r))

JobFairSpec == JobSpec /\ JobFairness

\* ======================================================== the tool executor
\* Number of execute_tool calls in one behaviour.
MaxExecutorCalls == 1

\* Tools that spawn a child process.
SpawningTools == {"code_eval", "shell_exec"}

\* What a tool implementation has done when it returns or first suspends:
\* the operations issued, the disk, the result (None while suspended), and
\* for a suspended shell_exec the timeout it armed.
ToolStep(effects, dirs, files, result, wait, timeout) ==
    [ effects |-> effects, dirs |-> dirs, files |-> files, result |-> result,
      wait |-> wait, timeout |-> timeout ]

Returns(effects, dirs, files, result) ==
    ToolStep(effects, dirs, files, Some(result), "done", None)

\* execute_file_read
execute_file_read(arguments, dirs, files, io_ok) ==
    IF arguments.path = None
    THEN Returns(<<>>, dirs, files, ToolErr("Missing 'path' argument", 0))
    ELSE LET path == arguments.path[1]
             resolved == Resolve(path)
         IN  IF ~is_safe_path(path)
             THEN Returns(<<>>, dirs, files, ToolErr("Path traversal not allowed", 0))
             ELSE Returns(<< Effect("read", resolved) >>, dirs, files,
                          IF io_ok /\ resolved \in files /\ ~DenotesDir(path)
                          THEN ToolOk("file content", 0)
                          ELSE ToolErr("Failed to read file", 0))

\* execute_file_write
execute_file_write(arguments, dirs, files, io_ok) ==
    IF arguments.path = None
    THEN Returns(<<>>, dirs, files, ToolErr("Missing 'path' argument", 0))
    ELSE IF arguments.content = None
    THEN Returns(<<>>, dirs, files, ToolErr("Missing 'content' argument", 0))
    ELSE LET path == arguments.path[1]
             content == arguments.content[1]
             resolved == Resolve(path)
             parent == Parent(resolved)
             mkdir == IF resolved = <<>> THEN <<>>
                      ELSE << Effect("create_dir_all", parent) >>
             mkdir_ok == resolved = <<>> \/ CanCreateDirAll(parent, files, io_ok)
             dirs2 == IF resolved = <<>> THEN dirs ELSE dirs \cup Ancestors(parent)
         IN  IF ~is_safe_path(path)
             THEN Returns(<<>>, dirs, files, ToolErr("Path traversal not allowed", 0))
             ELSE IF ~mkdir_ok
             THEN Returns(mkdir, dirs, files, ToolErr("Failed to create directories", 0))
             ELSE IF io_ok /\ ~DenotesDir(path) /\ resolved \notin dirs2
             THEN Returns(Append(mkdir, Effect("write", resolved)), dirs2,
                          files \cup { resolved }, ToolOk("Wrote bytes", Len(content)))
             ELSE Returns(Append(mkdir, Effect("write", resolved)), dirs2, files,
                          ToolErr("Failed to write file", 0))

\* execute_http_fetch, up to the first await
execute_http_fetch(arguments, dirs, files, client_ok) ==
    IF arguments.url = None
    THEN Returns(<<>>, dirs, files, ToolErr("Missing 'url' argument", 0))
    ELSE LET url == arguments.url[1]
         IN  IF ~HasHttpScheme(url)
             THEN Returns(<<>>, dirs, files,
                          ToolErr("URL must start with http:// or https://", 0))
             ELSE IF ~client_ok
             THEN Returns(<< Effect("build_client", <<>>) >>, dirs, files,
                          ToolErr("Failed to create HTTP client", 0))
             ELSE ToolStep(<< Effect("build_client", <<>>), Effect("send", url) >>,
                           dirs, files, None, "http_wait", None)

\* execute_shell, up to the await on the child
execute_shell(arguments, dirs, files, spawn_ok) ==
    IF arguments.command = None
    THEN Returns(<<>>, dirs, files, ToolErr("Missing 'command' argument", 0))
    ELSE LET parts == split_whitespace(arguments.command[1])
             timeout_secs == ShellTimeout(arguments)
         IN  IF parts = <<>>
             THEN Returns(<<>>, dirs, files, ToolErr("Command cannot be empty", 0))
             ELSE IF ~spawn_ok
             THEN Returns(<< Effect("spawn", parts) >>, dirs, files,
                          ToolErr("Failed to execute command", 0))
             ELSE ToolStep(<< Effect("spawn", parts) >>, dirs, files, None,
                           "shell_wait", Some(timeout_secs))

\* The throwaway script of code_eval.
ScriptPath(ext) == Append(Workspace, << "_eval.", ext >>)
ScriptExt(language) == IF language = "python" THEN "py" ELSE "js"

\* execute_code_eval, up to the await on the interpreter
execute_code_eval(arguments, dirs, files, io_ok, spawn_ok) ==
    IF arguments.language = None
    THEN Returns(<<>>, dirs, files, ToolErr("Missing 'language' argument", 0))
    ELSE IF arguments.code = None
    THEN Returns(<<>>, dirs, files, ToolErr("Missing 'code' argument", 0))
    ELSE IF arguments.language[1] \notin {"python", "javascript"}
    THEN Returns(<<>>, dirs, files, ToolErr("Unsupported language", 0))
    ELSE LET script == ScriptPath(ScriptExt(arguments.language[1]))
             written == << Effect("write", script) >>
         IN  IF ~(io_ok /\ Workspace \in dirs)
             THEN Returns(written, dirs, files, ToolErr("Failed to write script", 0))
             ELSE IF ~spawn_ok
             THEN Returns(Append(written, Effect("spawn", <<script>>)), dirs,
                          files \cup { script }, ToolErr("Failed to execute", 0))
             ELSE ToolStep(Append(written, Effect("spawn", <<script>>)), dirs,
                           files \cup { script }, None, "code_wait", None)

\* execute_tool, up to the first await of the tool it dispatches to: it
\* creates the workspace directory (ignoring a failure), then dispatches on
\* the name.
ExecuteTool(call, io_ok, client_ok, spawn_ok, runtime) ==
    /\ x_pc = "idle"
    /\ x_count < MaxExecutorCalls
    /\ LET dirs1 == IF CanCreateDirAll(Workspace, fs_files, io_ok)
                    THEN fs_dirs \cup Ancestors(Workspace) ELSE fs_dirs
           made == << Effect("create_dir_all", Workspace) >>
           step ==
             CASE call.name = "code_eval" ->
                    execute_code_eval(call.arguments, dirs1, fs_files, io_ok, spawn_ok)
               [] call.name = "http_fetch" ->
                    execute_http_fetch(call.arguments, dirs1, fs_files, client_ok)
               [] call.name = "file_read" ->
                    execute_file_read(call.arguments, dirs1, fs_files, io_ok)
               [] call.name = "file_write" ->
                    execute_file_write(call.arguments, dirs1, fs_files, io_ok)
               [] call.name = "shell_exec" ->
                    execute_shell(call.arguments, dirs1, fs_files, spawn_ok)
               [] OTHER ->
                    Returns(<<>>, dirs1, fs_files, ToolErr("Unknown tool", 0))
       IN  /\ x_call' = Some(call)
           /\ x_before' = Some([ dirs |-> fs_dirs, files |-> fs_files ])
           /\ x_effects' = made \o step.effects
           /\ fs_dirs' = step.dirs
           /\ fs_files' = step.files
           /\ x_pc' = step.wait
           /\ x_result' = IF step.result = None THEN None
                          ELSE Some(ToolResultOf(call, step.result[1]))
           /\ x_timeout' = step.timeout
           /\ x_runtime' = IF step.wait \in {"shell_wait", "code_wait"}
                           THEN runtime ELSE 0
           /\ x_io_ok' = IF step.wait = "code_wait" THEN io_ok ELSE TRUE
    /\ x_panicked' = FALSE
    /\ UNCHANGED x_count
    /\ UNCHANGED << loopVars, execVars, memVars >>

\* execute_http_fetch after send().await: the request failed, or the body
\* could not be read, or the body arrived; a body over the limit is cut at
\* the limit with &body[..50_000], which panics when that byte is not the
\* first byte of a character.
HttpFetchAnswer(answer) ==
    /\ x_pc = "http_wait"
    /\ LET body == answer.body
           over == BodyLen(body) > BodyLimit
           kept == IF over THEN BodyLimit ELSE BodyLen(body)
           result ==
             IF answer.kind = "send_error" THEN ToolErr("HTTP request failed", 0)
             ELSE IF answer.kind = "read_error" THEN ToolErr("Failed to read response", 0)
             ELSE IF answer.status = 200
                  THEN ToolOk(IF over THEN "truncated body" ELSE "body", kept)
                  ELSE ToolErr(IF over THEN "HTTP status, truncated body"
                               ELSE "HTTP status, body", kept)
       IN  IF answer.kind = "body" /\ over /\ ~IsCharBoundary(body, BodyLimit)
           THEN /\ x_panicked' = TRUE
                /\ x_result' = None
           ELSE /\ x_panicked' = FALSE
                /\ x_result' = Some(ToolResultOf(x_call[1], result))
    /\ x_pc' = "done"
    /\ UNCHANGED << fs_dirs, fs_files, x_call, x_effects, x_before, x_timeout,
                    x_runtime, x_io_ok, x_count >>
    /\ UNCHANGED << loopVars, execVars, memVars >>

\* execute_shell after the await: the child exited before the timer fired.
ShellExit(exit_code, stderr_empty) ==
    /\ x_pc = "shell_wait"
    /\ x_runtime <= x_timeout[1]
    /\ LET result == IF exit_code = 0
                     THEN ToolOk(IF stderr_empty THEN "stdout" ELSE "stdout and stderr", 0)
                     ELSE ToolErr("Exit code", exit_code)
       IN  x_result' = Some(ToolResultOf(x_call[1], result))
    /\ x_pc' = "done"
    /\ UNCHANGED << fs_dirs, fs_files, x_call, x_effects, x_panicked, x_before,
                    x_timeout, x_runtime, x_io_ok, x_count >>
    /\ UNCHANGED << loopVars, execVars, memVars >>

\* execute_shell after the await: tokio::time::timeout elapsed first.
ShellTimedOut ==
    /\ x_pc = "shell_wait"
    /\ x_runtime >= x_timeout[1]
    /\ x_result' = Some(ToolResultOf(x_call[1], ToolErr("Command timed out", x_timeout[1])))
    /\ x_pc' = "done"
    /\ UNCHANGED << fs_dirs, fs_files, x_call, x_effects, x_panicked, x_before,
                    x_timeout, x_runtime, x_io_ok, x_count >>
    /\ UNCHANGED << loopVars, execVars, memVars >>

\* execute_code_eval after the await: the interpreter exited; the script is
\* removed (a failure to remove it is ignored) and the exit status decides.
CodeEvalExit(exit_code) ==
    /\ x_pc = "code_wait"
    /\ x_runtime < NeverExits
    /\ LET script == ScriptPath(ScriptExt(x_call[1].arguments.language[1]))
       IN  /\ x_effects' = Append(x_effects, Effect("remove_file", script))
           /\ fs_files' = IF x_io_ok THEN fs_files \ { script } ELSE fs_files
    /\ x_result' = Some(ToolResultOf(x_call[1],
                        IF exit_code = 0 THEN ToolOk("stdout", 0)
                        ELSE ToolErr("Exit code", exit_code)))
    /\ x_pc' = "done"
    /\ UNCHANGED << fs_dirs, x_call, x_panicked, x_before, x_timeout, x_runtime,
                    x_io_ok, x_count >>
    /\ UNCHANGED << loopVars, execVars, memVars >>

\* The caller takes the ToolResult; the executor is ready for the next call.
ExecuteToolReturn ==
    /\ x_pc = "done"
    /\ ~x_panicked
    /\ x_pc' = "idle"
    /\ x_call' = None
    /\ x_effects' = <<>>
    /\ x_result' = None
    /\ x_before' = None
    /\ x_timeout' = None
    /\ x_runtime' = 0
    /\ x_io_ok' = TRUE
    /\ x_count' = x_count + 1
    /\ UNCHANGED << fs_dirs, fs_files, x_panicked >>
    /\ UNCHANGED << loopVars, execVars, memVars >>

\* Disks a call may find: no workspace yet, an empty workspace, a workspace
\* holding the file "a".
InitialDisks ==
    { [ dirs |-> Ancestors(WorkspacesDir), files |-> {} ],
      [ dirs |-> Ancestors(Workspace), files |-> {} ],
      [ dirs |-> Ancestors(Workspace), files |-> { Append(Workspace, <<"a">>) } ] }

\* Tool calls executed one after the other against one workspace; the loop
\* and the handlers are parked.
ToolSpecInit ==
    /\ ToolIdle
    /\ \E disk \in InitialDisks : fs_dirs = disk.dirs /\ fs_files = disk.files
    /\ LoopInit /\ max_turns = 0 /\ tools = allowed_tools(ShardCapabilities(FALSE))
    /\ ExecInit
    /\ MemParked

ToolNext ==
    \/ \E call \in ExecutorCalls, io_ok \in BOOLEAN :
          \E client_ok \in (IF call.name = "http_fetch" THEN BOOLEAN ELSE { TRUE }),
             spawn_ok \in (IF call.name \in SpawningTools THEN BOOLEAN ELSE { TRUE }),
             runtime \in (IF call.name \in SpawningTools THEN Runtimes ELSE { 0 }) :
             ExecuteTool(call, io_ok, client_ok, spawn_ok, runtime)
    \/ \E answer \in HttpAnswers : HttpFetchAnswer(answer)
    \/ \E exit_code \in {0, 1}, stderr_empty \in BOOLEAN : ShellExit(exit_code, stderr_empty)
    \/ ShellTimedOut
    \/ \E exit_code \in {0, 1} : CodeEvalExit(exit_code)
    \/ ExecuteToolReturn

ToolSpec == ToolSpecInit /\ [][ToolNext]_vars

\* ------------------------------------- run_execution: the lesson memory
\* apply_lesson_feedback: one UPDATE per id, in order
RECURSIVE UpdateEach(_, _, _, _)
UpdateEach(table, ids, helpful, now) ==
    IF ids = <<>> THEN table
    ELSE UpdateEach([ table EXCEPT ![Head(ids)] = FeedbackRow(@, helpful, now) ],
                    Tail(ids), helpful, now)

\* Mutant of apply_lesson_feedback: every UPDATE is issued twice.
apply_lesson_feedback_Twice(table, lesson_ids, helpful, ok_updates, now) ==
    UpdateEach(UpdateEach(table, SubSeq(lesson_ids, 1, ok_updates), helpful, now),
               SubSeq(lesson_ids, 1, ok_updates), helpful, now)

\* The table after apply_lesson_feedback whose first ok_updates UPDATEs
\* succeed (the next one fails and the function returns).
apply_lesson_feedback(table, lesson_ids, helpful, ok_updates, now) ==
    UpdateEach(table, SubSeq(lesson_ids, 1, ok_updates), helpful, now)

\* A lesson after h helpful and u unhelpful feedback applications.
RECURSIVE Seasoned(_, _, _)
Seasoned(row, h, u) ==
    IF h > 0 THEN Seasoned(FeedbackRow(row, TRUE, row.updated_at), h - 1, u)
    ELSE IF u > 0 THEN Seasoned(FeedbackRow(row, FALSE, row.updated_at), h, u - 1)
    ELSE row

\* A lesson left by an earlier execution of task with result loop.
StoreRow(id, shard_id, task, loop, created_at) ==
    ExtractLesson(id, shard_id, id, task, infer_task_type(task), loop, TRUE, created_at)

\* The stores an execution may find: nothing; one lesson per agent; an agent
\* with several lessons of one goal (near-duplicates of each other, the
\* oldest with the best record) and one of another approach; an agent with
\* nine lessons no two of which are near-duplicates, some with a poor record.
StoreOneEach ==
    << Seasoned(StoreRow(1, "A", <<"Fix", "parser", "tests">>, Outcome("tool"), 1), 2, 0),
       StoreRow(2, "B", <<"Write", "poem">>, Outcome("plain"), 2) >>

StoreSameGoal ==
    << Seasoned(StoreRow(1, "A", <<"Fix", "parser", "tests">>, Outcome("plain"), 0), 3, 0),
       Seasoned(StoreRow(2, "A", <<"Fix", "parser", "tests">>, Outcome("plain"), 1), 0, 1),
       Seasoned(StoreRow(3, "A", <<"Fix", "parser", "tests">>, Outcome("failed tool"), 2), 0, 14),
       StoreRow(4, "A", <<"Fix", "parser", "tests">>, Outcome("plain"), 2) >>

StoreDiverse ==
    << StoreRow(1, "A", <<"Fix", "parser", "tests">>, Outcome("plain"), 0),
       StoreRow(2, "A", <<"Write", "poem">>, Outcome("plain"), 0),
       Seasoned(StoreRow(3, "A", <<"research", "llamas">>, Outcome("failed tool"), 0), 0, 9),
       StoreRow(4, "A", <<"build", "bridge">>, Outcome("tool"), 1),
       Seasoned(StoreRow(5, "A", <<"plan", "trip">>, Outcome("error"), 1), 0, 9),
       StoreRow(6, "A", <<"debug", "lexer">>, Outcome("plain"), 1),
       Seasoned(StoreRow(7, "A", <<"draft", "memo">>, Outcome("plain"), 2), 4, 0),
       StoreRow(8, "A", <<"compare", "prices">>, Outcome("plain"), 2),
       StoreRow(9, "A", <<"refactor", "module">>, Outcome("tool"), 2) >>

InitialStores == { <<>>, StoreOneEach, StoreSameGoal, StoreDiverse }

\* A row written through db::insert_task_lesson by a caller other than
\* run_execution: the function takes any goal and approach.
DirectRow(id, shard_id, task_type, goal, approach, created_at) ==
    insert_task_lesson(id,
        [ shard_id |-> shard_id, action_id |-> id, task_type |-> task_type,
          goal |-> goal, approach |-> approach, tools_used |-> <<>>,
          outcome |-> << "done" >>, errors |-> <<>>, fixes |-> <<>>,
          duration_ms |-> 1000, success |-> TRUE, extractor_confidence |-> 75,
          applicability_confidence |-> 55, reusability |-> 55,
          artifact_path |-> "memories/tasks" ],
        created_at)

\* An agent with three lessons of a good record and two of a record so poor
\* that their score is 0, no two of them near-duplicates; and an agent with
\* a lesson of run_execution and a lesson whose goal and approach hold no
\* token of three or more characters.
StorePoor ==
    << StoreRow(1, "A", <<"Write", "poem">>, Outcome("plain"), 0),
       StoreRow(2, "A", <<"build", "bridge">>, Outcome("tool"), 1),
       StoreRow(3, "A", <<"compare", "prices">>, Outcome("plain"), 2),
       Seasoned(StoreRow(4, "A", <<"plan", "trip">>, Outcome("error"), 1), 0, 14),
       Seasoned(StoreRow(5, "A", <<"research", "llamas">>, Outcome("failed tool"), 2), 0, 14) >>

StoreTokenless ==
    << StoreRow(1, "A", <<"Fix", "parser", "tests">>, Outcome("plain"), 1),
       DirectRow(2, "A", "general", <<"hi">>, <<"in", "1">>, 2) >>

\* The clock reading when the first execution starts.
StartClock == 3

\* The executions a keeper is given: two, one after the other, when it
\* starts with at most one lesson per agent; one when it starts with more.
RunsGiven(store) == IF store \in { <<>>, StoreOneEach } THEN RunIds ELSE { "r1" }

\* An execution meets at most one persistence failure (a database statement
\* or the artifact write failing): the statements of a step may fail only
\* while none has failed before, and only one of them.
MayFail(r, oks) ==
    LET failures == Cardinality({ i \in 1..Len(oks) : ~oks[i] })
    IN  failures <= (IF runs[r].failed THEN 0 ELSE 1)

MemoryInit ==
    /\ task_lessons \in InitialStores
    /\ lesson_retrieval_events = <<>>
    /\ clock = StartClock
    /\ runs = [ r \in RunIds |-> IF r \in RunsGiven(task_lessons) THEN IdleRun
                                  ELSE [ IdleRun EXCEPT !.pc = "off" ] ]
    /\ LoopInit /\ max_turns = 0 /\ tools = allowed_tools(ShardCapabilities(FALSE))
    /\ ExecInit
    /\ ToolParked

LessonIds(ls) == [ i \in 1..Len(ls) |-> ls[i].id ]

\* run_execution up to the agent loop: infer the category, retrieve (the
\* prefilter reads the table, the embedding gateway answers), and record the
\* retrieval event when something was retrieved.
RunRetrieve(r, shard_id, task, db_ok, embed, event_ok) ==
    /\ runs[r].pc = "idle"
    /\ MayFail(r, << db_ok, event_ok >>)
    /\ LET task_type == infer_task_type(task)
           candidates == IF db_ok
                         THEN retrieve_relevant_lessons(task_lessons, shard_id, task,
                                                        task_type, 40, clock)
                         ELSE <<>>
           retrieved == retrieve_lessons_hybrid(task_lessons, db_ok, shard_id, task,
                                                task_type, embed, clock)
           started == retrieved # <<>> /\ event_ok
           event == [ shard_id |-> shard_id, task |-> task, task_type |-> task_type,
                      lesson_ids |-> LessonIds(retrieved), completed |-> FALSE,
                      completions |-> 0, success |-> None, duration_ms |-> None,
                      latency_delta_ms |-> None, helpful |-> None ]
       IN  /\ lesson_retrieval_events' =
                 IF started THEN Append(lesson_retrieval_events, event)
                 ELSE lesson_retrieval_events
           /\ runs' = [ runs EXCEPT ![r] =
                 [ @ EXCEPT !.pc = "loop", !.shard_id = shard_id, !.task = task,
                            !.task_type = task_type, !.candidates = candidates,
                            !.read_ok = db_ok, !.retrieved = retrieved,
                            !.embedded = candidates = <<>> \/ embed # "failed",
                            !.vectors = IF candidates = <<>> THEN "none" ELSE embed,
                            !.failed = ~(db_ok /\ event_ok),
                            !.event_id = IF started
                                         THEN Some(Len(lesson_retrieval_events) + 1)
                                         ELSE None ] ]
    /\ UNCHANGED << task_lessons, clock >>
    /\ UNCHANGED << loopVars, execVars, toolVars >>

\* run_agent_loop returns.
RunLoopEnd(r, loop) ==
    /\ runs[r].pc = "loop"
    /\ runs' = [ runs EXCEPT ![r] = [ @ EXCEPT !.pc = "extract", !.loop = Some(loop) ] ]
    /\ UNCHANGED << task_lessons, lesson_retrieval_events, clock >>
    /\ UNCHANGED << loopVars, execVars, toolVars >>

\* The lesson of the execution is extracted and inserted; the insert's
\* error is dropped.  Without retrieved lessons the execution is over and the
\* response is returned.  A panic of the extraction ends the handler's task:
\* nothing is inserted and no response is returned.  Time passes between
\* executions: the clock moves on by one unit.
RunInsertLesson(r, artifact_ok, db_ok) ==
    /\ runs[r].pc = "extract"
    /\ MayFail(r, << artifact_ok, db_ok >>)
    /\ LET id == Len(task_lessons) + 1
           panics == ExtractionPanics(runs[r].task, runs[r].loop[1])
           over == runs[r].retrieved = <<>>
       IN  /\ task_lessons' =
                 IF ~panics /\ db_ok
                 THEN Append(task_lessons,
                             ExtractLesson(id, runs[r].shard_id, 0, runs[r].task,
                                           runs[r].task_type, runs[r].loop[1], artifact_ok,
                                           clock))
                 ELSE task_lessons
           /\ runs' = [ runs EXCEPT ![r] =
                 [ @ EXCEPT !.pc = IF panics THEN "panicked"
                                   ELSE IF over THEN "done" ELSE "feedback",
                            !.lesson_id = IF ~panics /\ db_ok THEN Some(id) ELSE None,
                            !.response = IF ~panics /\ over THEN runs[r].loop ELSE None,
                            !.failed = IF ~panics /\ ~over
                                       THEN @ \/ ~(artifact_ok /\ db_ok) ELSE FALSE ] ]
    /\ clock' = clock + 1
    /\ UNCHANGED lesson_retrieval_events
    /\ UNCHANGED << loopVars, execVars, toolVars >>

\* The feedback block: the baseline query, the verdict, the UPDATE of each
\* retrieved lesson, the completion of the event.  Every error is dropped.
RunFeedback(r, avg_ok, ok_updates, complete_ok) ==
    /\ runs[r].pc = "feedback"
    /\ LET loop == runs[r].loop[1]
           baseline == IF avg_ok
                       THEN avg_success_duration_by_task_type(task_lessons, runs[r].shard_id,
                                                              runs[r].task_type)
                       ELSE None
           latency_delta_ms == IF baseline = None THEN None
                               ELSE Some(loop.duration_ms - baseline[1])
           helpful == loop.all_success
                      /\ (IF latency_delta_ms = None THEN TRUE ELSE latency_delta_ms[1] <= 0)
           ids == LessonIds(runs[r].retrieved)
           event_id == runs[r].event_id
       IN  /\ ok_updates \in 0..Len(ids)
           /\ MayFail(r, << avg_ok, ok_updates = Len(ids), complete_ok >>)
           /\ task_lessons' = apply_lesson_feedback(task_lessons, ids, helpful, ok_updates, clock)
           /\ lesson_retrieval_events' =
                 IF event_id # None /\ complete_ok
                 THEN [ lesson_retrieval_events EXCEPT ![event_id[1]] =
                          [ @ EXCEPT !.completed = TRUE, !.completions = @ + 1,
                                     !.success = Some(loop.all_success),
                                     !.duration_ms = Some(loop.duration_ms),
                                     !.latency_delta_ms = latency_delta_ms,
                                     !.helpful = Some(helpful) ] ]
                 ELSE lesson_retrieval_events
           /\ runs' = [ runs EXCEPT ![r] =
                 [ @ EXCEPT !.pc = "done", !.baseline_read = avg_ok,
                            !.baseline = baseline,
                            !.helpful = Some(helpful), !.updates = ok_updates,
                            !.response = runs[r].loop,
                            !.failed = FALSE ] ]
    /\ UNCHANGED clock
    /\ UNCHANGED << loopVars, execVars, toolVars >>

\* Execution r1 comes first.  A second execution is taken when the first
\* has returned and left a lesson, for the same agent and the same task
\* (executions of different agents are the subject of InterleavedSpec).
NoneUnderWay(r, shard_id, task) ==
    IF r = "r1" THEN \A q \in RunIds \ { r } : runs[q].pc \in { "idle", "off" }
    ELSE /\ runs["r1"].pc = "done" /\ runs["r1"].lesson_id # None
         /\ shard_id = runs["r1"].shard_id /\ task = runs["r1"].task

\* Executions taken one after the other.
MemoryNext ==
    \/ \E r \in RunIds, shard_id \in Agents, task \in Tasks, db_ok \in BOOLEAN,
          embed \in EmbedAnswers, event_ok \in BOOLEAN :
          /\ NoneUnderWay(r, shard_id, task)
          /\ RunRetrieve(r, shard_id, task, db_ok, embed, event_ok)
    \/ \E r \in RunIds, loop \in LoopOutcomes : RunLoopEnd(r, loop)
    \/ \E r \in RunIds, artifact_ok \in BOOLEAN, db_ok \in BOOLEAN :
          RunInsertLesson(r, artifact_ok, db_ok)
    \/ \E r \in RunIds, avg_ok \in BOOLEAN, ok_updates \in 0..RetrievalCap,
          complete_ok \in BOOLEAN :
          RunFeedback(r, avg_ok, ok_updates, complete_ok)

MemorySpec == MemoryInit /\ [][MemoryNext]_vars

\* Two executions of different agents, their steps interleaved in every
\* order: execute_task admits one execution per shard at a time, and every
\* shard has its own.  Each agent starts with one lesson and is given the
\* same task; the embedding gateway fails or ranks the candidates in rising
\* order.
AgentOf(r) == IF r = "r1" THEN "A" ELSE "B"

InterleavedInit ==
    /\ task_lessons = StoreOneEach
    /\ lesson_retrieval_events = <<>>
    /\ clock = StartClock
    /\ runs = [ r \in RunIds |-> IdleRun ]
    /\ LoopInit /\ max_turns = 0 /\ tools = allowed_tools(ShardCapabilities(FALSE))
    /\ ExecInit
    /\ ToolParked

InterleavedNext ==
    \/ \E r \in RunIds, db_ok \in BOOLEAN, embed \in { "failed", "rising" },
          event_ok \in BOOLEAN :
          RunRetrieve(r, AgentOf(r), << "Fix", "parser", "tests" >>, db_ok, embed, event_ok)
    \/ \E r \in RunIds, loop \in LoopOutcomes : RunLoopEnd(r, loop)
    \/ \E r \in RunIds, artifact_ok \in BOOLEAN, db_ok \in BOOLEAN :
          RunInsertLesson(r, artifact_ok, db_ok)
    \/ \E r \in RunIds, avg_ok \in BOOLEAN, ok_updates \in 0..RetrievalCap,
          complete_ok \in BOOLEAN :
          RunFeedback(r, avg_ok, ok_updates, complete_ok)

InterleavedSpec == InterleavedInit /\ [][InterleavedNext]_vars

\* The retrieval alone, applied twice to each store for the same agent and
\* task, the clock standing still: the stores above and the ones of
\* MemorySpec, every agent and task, and every answer of the table and of
\* the embedding gateway.
RetrieveInit ==
    /\ task_lessons \in InitialStores \cup { StorePoor, StoreTokenless }
    /\ lesson_retrieval_events = <<>>
    /\ clock = StartClock
    /\ runs = [ r \in RunIds |-> IdleRun ]
    /\ LoopInit /\ max_turns = 0 /\ tools = allowed_tools(ShardCapabilities(FALSE))
    /\ ExecInit
    /\ ToolParked

RetrieveNext ==
    \E r \in RunIds, shard_id \in Agents, task \in Tasks, db_ok \in BOOLEAN,
       embed \in EmbedAnswers, event_ok \in BOOLEAN :
        /\ r = "r2" => /\ runs["r1"].pc = "loop"
                       /\ shard_id = runs["r1"].shard_id /\ task = runs["r1"].task
        /\ RunRetrieve(r, shard_id, task, db_ok, embed, event_ok)

RetrieveSpec == RetrieveInit /\ [][RetrieveNext]_vars

\* The extraction alone, applied to the loop results with up to MaxResults
\* tool results, each a success or a failure of one of two tools: the store
\* is empty, the retrieval has returned nothing and the loop has returned.
MaxResults == 4

ExtractOutcomes ==
    { LoopOutcome(Len(results) + 1, results, Some(<< "done" >>), "Completed", 1000) :
        results \in SeqsUpTo({ ToolRes(name, ok) : name \in { "shell_exec", "code_eval" },
                                                     ok \in BOOLEAN }, MaxResults) }

ExtractInit ==
    /\ task_lessons = <<>>
    /\ lesson_retrieval_events = <<>>
    /\ clock = StartClock
    /\ \E loop \in ExtractOutcomes :
          runs = [ r \in RunIds |->
                    IF r = "r1"
                    THEN [ IdleRun EXCEPT !.pc = "extract", !.shard_id = "A",
                                          !.task = << "hi" >>,
                                          !.task_type = infer_task_type(<< "hi" >>),
                                          !.loop = Some(loop) ]
                    ELSE [ IdleRun EXCEPT !.pc = "off" ] ]
    /\ LoopInit /\ max_turns = 0 /\ tools = allowed_tools(ShardCapabilities(FALSE))
    /\ ExecInit
    /\ ToolParked

ExtractNext ==
    \E artifact_ok \in BOOLEAN, db_ok \in BOOLEAN : RunInsertLesson("r1", artifact_ok, db_ok)

ExtractSpec == ExtractInit /\ [][ExtractNext]_vars

\* ================================================= properties of the loop
Returned == loop_result # None
Result == loop_result[1]

RECURSIVE ConcatToolResults(_)
ConcatToolResults(ts) ==
    IF Len(ts) = 0 THEN <<>>
    ELSE ConcatToolResults(SubSeq(ts, 1, Len(ts) - 1)) \o ts[Len(ts)].tool_results

RECURSIVE SumToolResults(_)
SumToolResults(ts) ==
    IF Len(ts) = 0 THEN 0
    ELSE SumToolResults(SubSeq(ts, 1, Len(ts) - 1)) + Len(ts[Len(ts)].tool_results)

TurnHasFailure(t) == \E j \in 1..Len(t.tool_results) : ~t.tool_results[j].success

IsToolTurn(t) == t.inference_result.type = "ToolCalls"

\* The tool calls a list of finished turns asked for, in turn and call order.
RECURSIVE ExpectedExecs(_)
ExpectedExecs(ts) ==
    IF Len(ts) = 0 THEN <<>>
    ELSE LET t == ts[Len(ts)]
         IN  ExpectedExecs(SubSeq(ts, 1, Len(ts) - 1)) \o
             (IF IsToolTurn(t)
              THEN [ i \in 1..Len(t.inference_result.calls) |->
                       [ turn |-> t.turn_number, call |-> t.inference_result.calls[i] ] ]
              ELSE <<>>)

\* The messages the first n calls of a tool turn leave in the conversation.
CallMessages(cs, results, n) ==
    << assistant_tool_calls(cs) >> \o
    [ i \in 1..n |-> tool_result(cs[i].id, cs[i].name, results[i].output) ]

\* The conversation a list of finished turns leaves behind.
RECURSIVE ConversationOf(_)
ConversationOf(ts) ==
    IF Len(ts) = 0 THEN << text("user", InitialMessage) >>
    ELSE LET t == ts[Len(ts)]
         IN  ConversationOf(SubSeq(ts, 1, Len(ts) - 1)) \o
             (IF IsToolTurn(t)
              THEN CallMessages(t.inference_result.calls, t.tool_results,
                                Len(t.inference_result.calls))
              ELSE <<>>)

\* C3: a loop result has stop_reason Completed iff it carries a final
\* response, and a completed result carries the text of its last turn.
C3_CompletedIffFinalResponse ==
    Returned =>
        /\ (Result.stop_reason = "Completed") <=> (Result.final_response # None)
        /\ Result.stop_reason = "Completed" =>
             /\ Len(Result.turns) > 0
             /\ Result.turns[Len(Result.turns)].inference_result.type = "Text"
             /\ Result.final_response =
                  Some(Result.turns[Len(Result.turns)].inference_result.content)

C3_Witness ==
    /\ Returned
    /\ Result.stop_reason = "Completed"
    /\ Len(Result.turns) = 2
    /\ Result.final_response = Some("answer")

\* C4: total_tool_calls is the sum of the turns' tool_results lengths and the
\* length of all_tool_results, all_tool_results is the concatenation of the
\* turns' results in turn order, and turn i carries turn_number i.
C4_ToolCountsAndTurnNumbers ==
    Returned =>
        /\ Result.total_tool_calls = SumToolResults(Result.turns)
        /\ Result.total_tool_calls = Len(Result.all_tool_results)
        /\ Result.all_tool_results = ConcatToolResults(Result.turns)
        /\ \A i \in 1..Len(Result.turns) : Result.turns[i].turn_number = i

C4_Witness ==
    /\ Returned
    /\ Len(Result.turns) = 2
    /\ Len(Result.turns[1].tool_results) = 2
    /\ Len(Result.turns[2].tool_results) = 1
    /\ Result.total_tool_calls = 3

\* C5: all_success is false iff some tool result of some turn failed.
C5_AllSuccessIffNoFailure ==
    Returned =>
        ((Result.all_success = FALSE)
            <=> (\E k \in 1..Len(Result.turns) : TurnHasFailure(Result.turns[k])))

C5_Witness ==
    /\ Returned
    /\ ~Result.all_success
    /\ \E k \in 1..Len(Result.turns) :
          /\ Len(Result.turns[k].tool_results) = 2
          /\ ~Result.turns[k].tool_results[1].success
          /\ Result.turns[k].tool_results[2].success

\* C6: at most max_turns inference calls are made; the loop stops with
\* MaxTurns exactly when each of max_turns calls returned tool calls, and the
\* result then holds max_turns turns.
C6_MaxTurnsBound ==
    /\ inference_calls <= max_turns
    /\ Returned =>
        /\ (Result.stop_reason = "MaxTurns")
             <=> /\ inference_calls = max_turns
                 /\ Len(inference_log) = max_turns
                 /\ \A i \in 1..Len(inference_log) : inference_log[i] = "tool_calls"
        /\ Result.stop_reason = "MaxTurns" => Len(Result.turns) = max_turns

C6_Witness ==
    /\ Returned
    /\ Result.stop_reason = "MaxTurns"
    /\ max_turns = MaxTurnsBound
    /\ inference_calls = max_turns
    /\ Len(Result.turns) = max_turns

\* C7: when the inference call of turn k fails or times out, the loop stops
\* with the matching stop reason, no later inference call or tool call is
\* made, exactly the k-1 earlier turns are kept, and the conversation is the
\* one turn k-1 left.
C7_InferenceFailureStopsAtOnce ==
    \A k \in 1..Len(inference_log) :
        inference_log[k] \in {"error", "timeout"} =>
            /\ k = Len(inference_log)
            /\ inference_calls = k
            /\ pc \in {"return", "done"}
            /\ stop_reason = (IF inference_log[k] = "error"
                              THEN "InferenceError" ELSE "TurnTimeout")
            /\ Len(turns) = k - 1
            /\ \A i \in 1..Len(turns) : IsToolTurn(turns[i])
            /\ Len(tool_execs) = SumToolResults(turns)
            /\ \A i \in 1..Len(tool_execs) : tool_execs[i].turn < k
            /\ conversation = ConversationOf(turns)
            /\ Returned =>
                 /\ Result.stop_reason = stop_reason
                 /\ Result.turns = turns
                 /\ Result.final_response = None

C7_Witness ==
    /\ Returned
    /\ Result.stop_reason = "TurnTimeout"
    /\ inference_calls = 2
    /\ Len(Result.turns) = 1
    /\ Len(Result.turns[1].tool_results) = 2

\* C8: the calls of a turn are executed one at a time in the order requested,
\* each once; the i-th result and the i-th tool message carry the id and name
\* of the i-th call; an inference call is outstanding only when every tool
\* call started so far has finished.
C8_ToolCallsSequentialInOrder ==
    /\ \A k \in 1..Len(turns) :
         IsToolTurn(turns[k]) =>
            /\ Len(turns[k].tool_results) = Len(turns[k].inference_result.calls)
            /\ \A i \in 1..Len(turns[k].tool_results) :
                 /\ turns[k].tool_results[i].tool_call_id = turns[k].inference_result.calls[i].id
                 /\ turns[k].tool_results[i].tool_name = turns[k].inference_result.calls[i].name
    /\ pc \in {"tool_loop", "await_tool"} =>
         /\ Len(turn_results) = call_idx - 1
         /\ \A i \in 1..Len(turn_results) :
              /\ turn_results[i].tool_call_id = calls[i].id
              /\ turn_results[i].tool_name = calls[i].name
         /\ tool_execs = ExpectedExecs(turns) \o
              [ i \in 1..(IF pc = "await_tool" THEN call_idx ELSE call_idx - 1) |->
                  [ turn |-> turn_number, call |-> calls[i] ] ]
         /\ conversation = ConversationOf(turns) \o
                           CallMessages(calls, turn_results, Len(turn_results))
    /\ pc \in {"loop_head", "await_inference", "return", "done"} =>
         /\ tool_execs = ExpectedExecs(turns)
         /\ Len(tool_execs) = Len(all_tool_results)
         /\ conversation = ConversationOf(turns)

C8_Witness ==
    /\ pc = "await_inference"
    /\ Len(turns) = 1
    /\ Len(turns[1].tool_results) = 2
    /\ turns[1].tool_results[1].tool_call_id # turns[1].tool_results[2].tool_call_id

\* C9: a failed tool call does not stop the loop: the turn's remaining calls
\* are executed and recorded, the next inference call is made when turns
\* remain, and the stop reason follows from the inference outcomes alone.
C9_ToolFailureDoesNotStopLoop ==
    /\ stop_reason =
         (IF Len(inference_log) = 0 THEN "MaxTurns"
          ELSE CASE inference_log[Len(inference_log)] = "tool_calls" -> "MaxTurns"
                 [] inference_log[Len(inference_log)] = "text" -> "Completed"
                 [] inference_log[Len(inference_log)] = "error" -> "InferenceError"
                 [] inference_log[Len(inference_log)] = "timeout" -> "TurnTimeout")
    /\ Returned =>
         \A k \in 1..Len(Result.turns) :
            TurnHasFailure(Result.turns[k]) =>
               /\ Len(Result.turns[k].tool_results)
                    = Len(Result.turns[k].inference_result.calls)
               /\ k < max_turns => inference_calls >= k + 1
               /\ k = max_turns => Result.stop_reason = "MaxTurns"

C9_Witness ==
    /\ Returned
    /\ Len(Result.turns) = 2
    /\ Len(Result.turns[1].tool_results) = 2
    /\ ~Result.turns[1].tool_results[1].success
    /\ Result.turns[1].tool_results[2].success
    /\ Result.stop_reason = "Completed"

\* C10: every run of the agent loop returns a result, whatever the gateway
\* and the tool processes do.
C10_LoopTerminates == <>(pc = "done")

\* ============================================ properties of the handlers
\* A run_execution pipeline of request r is in flight.
InFlight(r) == e_pc[r] \in {"job_insert", "run_execution", "bookkeeping"}

\* No handler is between its first and its last step.
Quiescent ==
    /\ \A r \in ExecuteReqs : e_pc[r] \in {"new", "done"}
    /\ \A h \in OtherReqs : h_pc[h] \in {"new", "done"}

\* C1: of the concurrent execute requests for the shard at most one is
\* admitted while an execution is in flight, so two run_execution pipelines
\* are never in flight together.
C1_AtMostOneExecutionInFlight ==
    Cardinality({ r \in ExecuteReqs : InFlight(r) }) <= 1

\* C2: no terminal state of the pipeline leaves the shard executing: when
\* every admitted execution has run to its end and no handler is active, the
\* persisted execution state is idle.
C2_ExecutingIsLeft ==
    Quiescent => db_shard.execution_state = "idle"

\* ======================================== properties of the tool executor
\* The call being executed, its arguments and the ToolResult returned.
ToolCallDone == x_pc = "done" /\ x_call # None
CallName == x_call[1].name
CallArgs == x_call[1].arguments
IsFileCall == ToolCallDone /\ CallName \in {"file_read", "file_write"}

\* A path the sandbox must refuse.
Traversal(path) == Contains(path, <<".", ".">>) \/ StartsWith(path, <<"/">>)

RejectedAsTraversal ==
    /\ x_result # None
    /\ ~x_result[1].success
    /\ x_result[1].output = << "Path traversal not allowed", 0 >>

\* Every read or write the call issued names a path under the workspace, and
\* every directory it created is the workspace, one of its ancestors, or lies
\* under it.
StaysUnderWorkspace ==
    /\ \A i \in 1..Len(x_effects) :
          x_effects[i].op \in {"read", "write"} => IsPrefix(Workspace, x_effects[i].target)
    /\ \A d \in fs_dirs \ x_before[1].dirs :
          IsPrefix(Workspace, d) \/ d \in Ancestors(Workspace)
    /\ \A f \in fs_files \ x_before[1].files : IsPrefix(Workspace, f)

\* C11 as stated: a file_read or file_write call whose path contains ".." or
\* starts with "/" fails with the traversal error and has touched nothing on
\* disk; any other path stays under the workspace.
C11_TraversalTouchesNothing ==
    (IsFileCall /\ CallArgs.path # None) =>
        IF Traversal(CallArgs.path[1])
        THEN /\ RejectedAsTraversal
             /\ x_effects = <<>>
             /\ fs_dirs = x_before[1].dirs
             /\ fs_files = x_before[1].files
        ELSE StaysUnderWorkspace

\* C11 as amended: a file_read call, and a file_write call that carries a
\* content, whose path contains ".." or starts with "/" fails with the
\* traversal error having read nothing and created nothing but the workspace
\* directory that execute_tool creates before it dispatches; a file_write
\* call without content fails with the missing-argument error in the same
\* way; every other path is read or written under the workspace.
C11_TraversalRejectedBeforeResolution ==
    (IsFileCall /\ CallArgs.path # None) =>
        LET only_workspace ==
              /\ x_effects = << Effect("create_dir_all", Workspace) >>
              /\ fs_files = x_before[1].files
              /\ fs_dirs \subseteq x_before[1].dirs \cup Ancestors(Workspace)
        IN  IF CallName = "file_write" /\ CallArgs.content = None
            THEN /\ x_result # None
                 /\ ~x_result[1].success
                 /\ x_result[1].output = << "Missing 'content' argument", 0 >>
                 /\ only_workspace
            ELSE IF Traversal(CallArgs.path[1])
            THEN RejectedAsTraversal /\ only_workspace
            ELSE StaysUnderWorkspace

\* A file_write with a content and the path "../" has been refused, and a
\* workspace that did not exist has been created on the way.
C11_Witness ==
    /\ IsFileCall
    /\ CallName = "file_write"
    /\ CallArgs.path = Some(<<".", ".", "/">>)
    /\ CallArgs.content # None
    /\ RejectedAsTraversal
    /\ Workspace \in fs_dirs \ x_before[1].dirs

\* The effective timeout the claim gives for a timeout_secs argument that is
\* absent or an integer.
ClaimedTimeout(t) == IF t = None THEN 30 ELSE IF t[1].v < 120 THEN t[1].v ELSE 120

TimedOutWith(secs) ==
    /\ x_result # None
    /\ ~x_result[1].success
    /\ x_result[1].output = << "Command timed out", secs >>

\* C12 as stated: shell_exec arms a timeout of 30 s when timeout_secs is
\* absent and of min(timeout_secs, 120) otherwise, and a child still running
\* at the timeout yields the timeout message naming that number.
C12_TimeoutIsMinOfArgument ==
    (x_call # None /\ CallName = "shell_exec" /\ x_timeout # None
        /\ (CallArgs.timeout_secs = None \/ CallArgs.timeout_secs[1].kind = "int")) =>
        /\ x_timeout[1] = ClaimedTimeout(CallArgs.timeout_secs)
        /\ (x_pc = "done" /\ x_runtime > x_timeout[1]) => TimedOutWith(x_timeout[1])

\* C12 as amended: the timeout is 30 s when timeout_secs is absent or is not
\* a non-negative integer, and min(timeout_secs, 120) otherwise; a child
\* still running at the timeout yields the timeout message naming it.
C12_EffectiveTimeout ==
    (x_call # None /\ CallName = "shell_exec" /\ x_timeout # None) =>
        LET t == CallArgs.timeout_secs
            usable == t # None /\ t[1].kind = "int" /\ t[1].v >= 0
        IN  /\ x_timeout[1] = IF usable THEN ClaimedTimeout(t) ELSE 30
            /\ (x_pc = "done" /\ x_runtime > x_timeout[1]) => TimedOutWith(x_timeout[1])

\* A command given 121 s was still running at 120 s and was reported as
\* timed out after 120 s.
C12_Witness ==
    /\ ToolCallDone
    /\ CallName = "shell_exec"
    /\ CallArgs.timeout_secs = Some(JsonInt(121))
    /\ x_runtime = 121
    /\ TimedOutWith(120)

\* C13: every call that has ended has ended with exactly one ToolResult
\* carrying the call's id and name, never with a panic, and a call naming no
\* tool has issued no operation beyond creating the workspace directory.
C13_AlwaysOneToolResult ==
    ToolCallDone =>
        /\ ~x_panicked
        /\ x_result # None
        /\ x_result[1].tool_call_id = x_call[1].id
        /\ x_result[1].tool_name = CallName
        /\ CallName \notin KnownTools =>
              /\ ~x_result[1].success
              /\ x_effects = << Effect("create_dir_all", Workspace) >>

\* C14: an http_fetch call whose URL starts with neither http:// nor
\* https:// has failed without building a client or sending a request.
C14_NonHttpUrlFailsBeforeNetwork ==
    (x_call # None /\ CallName = "http_fetch" /\ CallArgs.url # None
        /\ ~StartsWith(CallArgs.url[1], HttpPrefix)
        /\ ~StartsWith(CallArgs.url[1], HttpsPrefix)) =>
        /\ x_pc = "done"
        /\ x_result # None
        /\ ~x_result[1].success
        /\ \A i \in 1..Len(x_effects) : x_effects[i].op \notin {"build_client", "send"}

\* A URL that only contains "http://" further in has been refused.
C14_Witness ==
    /\ ToolCallDone
    /\ CallName = "http_fetch"
    /\ CallArgs.url = Some(<<"x", "h", "t", "t", "p", ":", "/", "/">>)
    /\ x_result # None
    /\ x_result[1].output = << "URL must start with http:// or https://", 0 >>

\* ============================================ properties of the lesson memory
Started(r) == runs[r].pc \notin { "idle", "off" }
OwnLessons(shard_id) == SelectSeq(task_lessons, LAMBDA l : l.shard_id = shard_id)

NoNearDuplicates(ls) ==
    \A i, j \in 1..Len(ls) : i # j => ~near_duplicate(ls[i], ls[j])

\* C15: neither the database-level pass nor the hybrid pass of a retrieval
\* returns more than 7 lessons, and neither returns two lessons that are
\* near-duplicates of each other.
C15_RetrievalCappedAndDistinct ==
    \A r \in RunIds : Started(r) =>
        /\ Len(runs[r].candidates) <= 7
        /\ Len(runs[r].retrieved) <= 7
        /\ NoNearDuplicates(runs[r].candidates)
        /\ NoNearDuplicates(runs[r].retrieved)

\* A retrieval that met the cap: the agent has more than 7 lessons and both
\* passes returned 7.
C15_Witness ==
    \E r \in RunIds :
        /\ Started(r)
        /\ Len(OwnLessons(runs[r].shard_id)) > 7
        /\ Len(runs[r].candidates) = 7
        /\ Len(runs[r].retrieved) = 7

\* A retrieval that left near-duplicates out: the agent's lessons hold a
\* near-duplicate pair and something was returned.
C15_WitnessDuplicates ==
    \E r \in RunIds :
        /\ Started(r)
        /\ runs[r].retrieved # <<>>
        /\ ~NoNearDuplicates(OwnLessons(runs[r].shard_id))

\* The second execution repeats the first one's agent and task after the
\* first one's lesson was inserted, and its retrieval could read the table.
RoundTrip ==
    /\ runs["r1"].lesson_id # None
    /\ Started("r2")
    /\ runs["r2"].shard_id = runs["r1"].shard_id
    /\ runs["r2"].task = runs["r1"].task
    /\ runs["r2"].read_ok

\* The agent's lessons that the retrieval of execution r could see, apart
\* from lesson id: all but the one r inserted itself afterwards.
OtherLessonsSeen(r, id) ==
    SelectSeq(task_lessons, LAMBDA l : l.shard_id = runs[r].shard_id /\ l.id # id
                                         /\ Some(l.id) # runs[r].lesson_id)

FeedbackStepOf(r) == runs[r].pc = "feedback" /\ runs'[r].pc = "done"

\* One application of verdict to a row.
AppliedOnce(old, new, verdict) ==
    /\ new.score = IF verdict THEN Min(ScoreOne, old.score + 800)
                   ELSE Max(0, old.score - 500)
    /\ new.times_retrieved = old.times_retrieved + 1
    /\ new.times_helpful = old.times_helpful + (IF verdict THEN 1 ELSE 0)
    /\ new.times_unhelpful = old.times_unhelpful + (IF verdict THEN 0 ELSE 1)

ScoresAndCountersConsistent ==
    \A i \in 1..Len(task_lessons) :
        /\ task_lessons[i].score \in 0..ScoreOne
        /\ task_lessons[i].times_retrieved
              = task_lessons[i].times_helpful + task_lessons[i].times_unhelpful

\* C17: one feedback application sets the score to min(1.0, s + 0.08) when
\* helpful and to max(0.0, s - 0.05) when unhelpful, adds 1 to times_retrieved
\* and to exactly one of times_helpful / times_unhelpful; so every score
\* stays in [0, 1] and times_retrieved = times_helpful + times_unhelpful.
C17_FeedbackApplication ==
    /\ [][ \A r \in RunIds : FeedbackStepOf(r) =>
             \A k \in 1..runs'[r].updates :
                 AppliedOnce(task_lessons[runs[r].retrieved[k].id],
                             task_lessons'[runs[r].retrieved[k].id],
                             runs'[r].helpful[1]) ]_vars
    /\ []ScoresAndCountersConsistent

\* Feedback that met the upper clamp: a helpful verdict was applied to a
\* lesson retrieved with a score above 0.92, which now has score 1.0.
C17_Witness ==
    \E r \in RunIds :
        /\ runs[r].pc = "done"
        /\ runs[r].updates >= 1
        /\ runs[r].helpful = Some(TRUE)
        /\ runs[r].retrieved[1].score + 800 > ScoreOne
        /\ task_lessons[runs[r].retrieved[1].id].score = ScoreOne
        /\ task_lessons[runs[r].retrieved[1].id].times_retrieved
              = runs[r].retrieved[1].times_retrieved + 1

\* Feedback that met the lower clamp.
C17_WitnessUnhelpful ==
    \E r \in RunIds :
        /\ runs[r].pc = "done"
        /\ runs[r].updates >= 1
        /\ runs[r].helpful = Some(FALSE)
        /\ \E k \in 1..runs[r].updates :
              /\ runs[r].retrieved[k].score < 500
              /\ task_lessons[runs[r].retrieved[k].id].score = 0

\* The agent's successful lessons of the execution's category other than
\* the execution's own lesson.
EarlierSuccessful(r) ==
    SelectSeq(task_lessons, LAMBDA l : /\ l.shard_id = runs[r].shard_id
                                         /\ l.task_type = runs[r].task_type
                                         /\ l.success
                                         /\ Some(l.id) # runs[r].lesson_id)

\* Succeeded, and no earlier successful lesson of the category or not slower
\* than the average duration of those lessons.
DeservesHelpful(r) ==
    LET earlier == EarlierSuccessful(r)
        loop == runs[r].loop[1]
    IN  /\ loop.all_success
        /\ \/ earlier = <<>>
           \/ loop.duration_ms * Len(earlier) <= SumDurations(earlier)

VerdictAsClaimed(r) ==
    /\ runs'[r].helpful[1] = DeservesHelpful(r)
    /\ \A k \in 1..Len(runs[r].retrieved) :
          AppliedOnce(task_lessons[runs[r].retrieved[k].id],
                      task_lessons'[runs[r].retrieved[k].id],
                      runs'[r].helpful[1])

\* C18: the verdict of an execution that retrieved lessons is helpful iff it
\* succeeded and either the agent has no earlier successful lesson of the
\* category or its duration is not greater than the average duration of
\* those lessons; that verdict is applied to every retrieved lesson.
C18_VerdictAgainstBaseline ==
    [][ \A r \in RunIds : FeedbackStepOf(r) => VerdictAsClaimed(r) ]_vars

\* The same, for feedback steps in which the baseline query and every UPDATE
\* succeed.
C18_VerdictWhenStatementsSucceed ==
    [][ \A r \in RunIds :
          (/\ FeedbackStepOf(r)
           /\ runs'[r].baseline_read
           /\ runs'[r].updates = Len(runs[r].retrieved)) => VerdictAsClaimed(r) ]_vars

\* A successful execution slower than the average of the agent's earlier
\* successful lessons of the category, whose verdict is unhelpful.
C18_WitnessSlower ==
    \E r \in RunIds :
        /\ runs[r].pc = "done"
        /\ runs[r].retrieved # <<>>
        /\ runs[r].loop[1].all_success
        /\ runs[r].baseline_read
        /\ runs[r].helpful = Some(FALSE)

EventOf(r) == lesson_retrieval_events[runs[r].event_id[1]]

\* The event of execution r, if any, lists the retrieved ids in order, is
\* completed at most once and only when r is over, and then carries r's
\* success flag, duration, latency delta and verdict.
EventWellFormed(r) ==
    runs[r].event_id # None =>
        /\ runs[r].retrieved # <<>>
        /\ EventOf(r).lesson_ids = LessonIds(runs[r].retrieved)
        /\ EventOf(r).completions <= 1
        /\ EventOf(r).completed = (EventOf(r).completions = 1)
        /\ EventOf(r).completed =>
              /\ runs[r].pc = "done"
              /\ EventOf(r).success = Some(runs[r].loop[1].all_success)
              /\ EventOf(r).duration_ms = Some(runs[r].loop[1].duration_ms)
              /\ EventOf(r).latency_delta_ms =
                    (IF runs[r].baseline = None THEN None
                     ELSE Some(runs[r].loop[1].duration_ms - runs[r].baseline[1]))
              /\ EventOf(r).helpful = runs[r].helpful

\* C19: an execution has a retrieval event iff its retrieval returned a
\* lesson; the event lists the retrieved ids in order, is completed exactly
\* once, after the loop ended, with the execution's success flag, duration,
\* latency delta and verdict; no event is open once its execution is over.
C19_RetrievalEventLifecycle ==
    \A r \in RunIds : Started(r) =>
        /\ (runs[r].event_id # None) = (runs[r].retrieved # <<>>)
        /\ EventWellFormed(r)
        /\ (runs[r].pc = "done" /\ runs[r].event_id # None) => EventOf(r).completed

\* What holds of the events that were written, whatever failed.
C19_WrittenEventsAreRight ==
    \A r \in RunIds : Started(r) => EventWellFormed(r)

\* An execution that is over and whose event is completed.
C19_WitnessCompleted ==
    \E r \in RunIds :
        /\ runs[r].pc = "done"
        /\ runs[r].event_id # None
        /\ EventOf(r).completed
        /\ Len(EventOf(r).lesson_ids) >= 2

\* The fields of a lesson that are fixed at its creation.
FixedFields(l) ==
    << l.id, l.shard_id, l.action_id, l.task_type, l.goal, l.approach, l.tools_used,
       l.outcome, l.errors, l.fixes, l.duration_ms, l.success, l.extractor_confidence,
       l.applicability_confidence, l.reusability, l.artifact_path, l.created_at >>

\* C20: no step deletes a lesson or changes a field of an existing lesson
\* other than its score, its three usage counters and its update timestamp,
\* and only the feedback step of an execution changes those.
C20_LessonsChangeOnlyByFeedback ==
    [][ /\ Len(task_lessons') >= Len(task_lessons)
        /\ \A i \in 1..Len(task_lessons) :
              /\ FixedFields(task_lessons'[i]) = FixedFields(task_lessons[i])
              /\ task_lessons'[i] # task_lessons[i] => \E r \in RunIds : FeedbackStepOf(r) ]_vars

\* A lesson created by the first execution has received feedback from the
\* second one.
C20_Witness ==
    /\ runs["r1"].lesson_id # None
    /\ runs["r2"].pc = "done"
    /\ runs["r2"].updates >= 1
    /\ runs["r2"].retrieved[1].id = runs["r1"].lesson_id[1]
    /\ task_lessons[runs["r1"].lesson_id[1]].times_retrieved = 1
    /\ task_lessons[runs["r1"].lesson_id[1]].score # runs["r2"].retrieved[1].score


\* ------------------------------------------------ the lesson of an execution
\* The step of execution r that extracts and inserts its lesson.
InsertStepOf(r) == runs[r].pc = "extract" /\ runs'[r].pc # "extract"

Extracted(r) == runs[r].pc \in { "feedback", "done" }

\* The lesson the step of execution r would insert with the artifact written.
LessonWithArtifact(r) ==
    ExtractLesson(Len(task_lessons) + 1, runs[r].shard_id, 0, runs[r].task,
                  runs[r].task_type, runs[r].loop[1], TRUE, clock)

\* C21: every finished execution has inserted exactly one lesson, whatever
\* the stop reason and whether or not the artifact could be validated and
\* written: once the extraction step is over, the lesson of the execution
\* is in the table.
C21_EveryExecutionInsertsOneLesson ==
    \A r \in RunIds :
        Extracted(r) =>
            /\ runs[r].lesson_id # None
            /\ runs[r].lesson_id[1] \in 1..Len(task_lessons)
            /\ task_lessons[runs[r].lesson_id[1]].shard_id = runs[r].shard_id

\* C21, the part about the artifact: an extraction step whose INSERT
\* succeeds appends exactly one row and changes no other row, and the row is
\* the one an execution with a written artifact appends, the artifact path
\* apart.
C21_ArtifactFailureOnlyChangesPath ==
    [][ \A r \in RunIds :
          InsertStepOf(r) /\ runs'[r].lesson_id # None =>
              /\ Len(task_lessons') = Len(task_lessons) + 1
              /\ SubSeq(task_lessons', 1, Len(task_lessons)) = task_lessons
              /\ LET row == task_lessons'[Len(task_lessons')]
                 IN  /\ row.artifact_path \in { "memories/tasks", "memory://write_failed" }
                     /\ [ row EXCEPT !.artifact_path = "memories/tasks" ]
                            = LessonWithArtifact(r) ]_vars

\* An execution ended by an inference error, its artifact not written, has
\* its lesson in the table with the path of a failed write.
C21_WitnessArtifactFailed ==
    \E r \in RunIds :
        /\ Extracted(r) /\ runs[r].lesson_id # None
        /\ runs[r].loop[1].stop_reason = "InferenceError"
        /\ task_lessons[runs[r].lesson_id[1]].artifact_path = "memory://write_failed"


\* ---------------------------------------------- the response of an execution
\* The handler of execution r is over: it returned or its task panicked.
Over(r) == runs[r].pc \in { "done", "panicked" }

\* C22: no memory bookkeeping step changes or withholds the primary
\* outcome: once the handler of an execution whose loop has returned is
\* over, the caller has received the loop's result as the loop produced it.
C22_OutcomeAlwaysReturned ==
    \A r \in RunIds :
        Over(r) /\ runs[r].loop # None => runs[r].response = runs[r].loop

\* C22, the failures that are reported as errors: an execution whose
\* extraction does not panic returns the loop's result whichever statement
\* of the bookkeeping failed.
C22_ReturnedWhenNoPanic ==
    \A r \in RunIds :
        runs[r].pc = "done" => runs[r].response = runs[r].loop /\ runs[r].loop # None

\* An execution whose lesson insert failed has returned the loop's result.
C22_WitnessInsertFailed ==
    \E r \in RunIds :
        /\ runs[r].pc = "done" /\ runs[r].lesson_id = None
        /\ runs[r].response = runs[r].loop

\* An execution whose final response is cut inside a character is over
\* without a response.
C22_WitnessPanicked ==
    \E r \in RunIds :
        /\ runs[r].pc = "panicked" /\ runs[r].response = None
        /\ truncate(runs[r].loop[1].final_response[1], 900) = None


\* -------------------------------------------- retrieval without embeddings
\* The embedding call of execution r was made and gave no usable vectors.
FellBack(r) == Started(r) /\ ~runs[r].embedded

\* C23: when the embedding call fails, or returns a number of vectors other
\* than the number of inputs, the retrieval returns the candidates of the
\* prefilter in the prefilter's order, without near-duplicates and at most
\* 7 of them, under scores that decrease strictly with the rank, and the
\* execution goes on: its handler ends by returning the loop's result
\* unless the extraction panics.
C23_FallbackKeepsPrefilterOrder ==
    \A r \in RunIds :
        FellBack(r) =>
            /\ runs[r].retrieved = runs[r].candidates
            /\ NoNearDuplicates(runs[r].retrieved)
            /\ Len(runs[r].retrieved) <= RetrievalCap
            /\ \A i, j \in 1..Len(runs[r].candidates) :
                  i < j => FallbackScore(i - 1) > FallbackScore(j - 1)
            /\ runs[r].pc # "panicked" \/ ExtractionPanics(runs[r].task, runs[r].loop[1])
            /\ runs[r].pc = "done" => runs[r].response = runs[r].loop

\* An execution whose embedding call failed retrieved several lessons and
\* returned the loop's result.
C23_Witness ==
    \E r \in RunIds :
        /\ FellBack(r) /\ Len(runs[r].retrieved) >= 3
        /\ runs[r].pc = "done" /\ runs[r].response # None


\* ------------------------------------------------------- background jobs
\* A job record as a poller may see it: result iff completed, error iff
\* failed.
JobWellFormed(job) ==
    /\ job.status \in { "running", "completed", "failed" }
    /\ job.result # None <=> job.status = "completed"
    /\ job.error # None <=> job.status = "failed"

\* What a step may do to the job of request r: create it as running, leave
\* it alone, or take it from running to completed or failed.
JobStepAllowed(r) ==
    IF jobs[r] = None
    THEN jobs'[r] = None \/ jobs'[r][1].status = "running"
    ELSE \/ jobs'[r] = jobs[r]
         \/ /\ jobs[r][1].status = "running"
            /\ jobs'[r] # None
            /\ jobs'[r][1].status \in { "completed", "failed" }

\* C24: a job starts as running and its status changes at most once, to
\* completed or to failed; in the job table and in every answer of the
\* polling endpoint, the result is present iff the status is completed and
\* the error is present iff the status is failed.
C24_JobStatusChangesOnce ==
    /\ [](\A r \in ExecuteReqs : jobs[r] # None => JobWellFormed(jobs[r][1]))
    /\ [](polled # None /\ polled[1].answer # None => JobWellFormed(polled[1].answer[1]))
    /\ [][ \A r \in ExecuteReqs : JobStepAllowed(r) ]_vars

\* A poller has seen a job as running and the job is completed now.
C24_Witness ==
    /\ polled # None /\ polled[1].answer # None
    /\ polled[1].answer[1].status = "running"
    /\ jobs[polled[1].id] # None
    /\ jobs[polled[1].id][1].status = "completed"
    /\ jobs[polled[1].id][1].result # None

\* The job id of request r has been returned to its caller.
Issued(r) == e_response[r] = "accepted"

\* C25: from the moment a job id is returned, the polling endpoint knows it,
\* in every later state and whatever the spawned pipeline and the pollers
\* have done; a poll of an id that no job has answers not found, and no
\* poll changes a job.
C25_IssuedIdsAreKnown ==
    /\ [](\A r \in ExecuteReqs : Issued(r) => get_job(jobs, r) # None)
    /\ [][ \A id \in PolledIds :
             polled' # polled /\ polled'[1].id = id =>
                 /\ jobs' = jobs
                 /\ (id \in ExecuteReqs /\ Issued(id)) => polled'[1].answer # None
                 /\ (id \notin ExecuteReqs \/ jobs[id] = None) => polled'[1].answer = None
         ]_vars

\* A poll of an issued id was answered with the job after the pipeline of
\* that job has panicked, and a poll of an id no job has was answered not
\* found while a job exists.
C25_Witness ==
    /\ polled # None /\ polled[1].id \in ExecuteReqs
    /\ Issued(polled[1].id) /\ e_pc[polled[1].id] = "panicked"
    /\ polled[1].answer # None

C25_WitnessNotFound ==
    /\ polled # None /\ polled[1].id = 0 /\ polled[1].answer = None
    /\ \E r \in ExecuteReqs : jobs[r] # None


\* -------------------------------------------------- the script of code_eval
\* code_eval has returned after writing its script: the write succeeded
\* (the interpreter was asked for) and the ToolResult is there.
CodeEvalReturned ==
    /\ x_pc = "done" /\ x_call # None /\ x_call[1].name = "code_eval"
    /\ \E i \in 1..Len(x_effects) : x_effects[i].op = "spawn"

WrittenScript == ScriptPath(ScriptExt(x_call[1].arguments.language[1]))

\* C27: once code_eval has returned, on success, on a non-zero exit and when
\* the interpreter could not be started, the script it wrote is not in the
\* workspace.
C27_ScriptRemoved ==
    CodeEvalReturned => WrittenScript \notin fs_files

\* C27, the returns after the interpreter ran: the script is gone whatever
\* the exit code was.
C27_ScriptRemovedAfterExit ==
    CodeEvalReturned /\ x_result[1].output[1] # "Failed to execute"
        => WrittenScript \notin fs_files

\* code_eval returned a non-zero exit code and its script is gone.
C27_WitnessExit ==
    /\ CodeEvalReturned /\ x_result[1].output[1] = "Exit code"
    /\ WrittenScript \notin fs_files


\* ------------------------------------------------------- the latency delta
\* The event of execution r is completed by this step.
CompletionStepOf(r) ==
    /\ FeedbackStepOf(r) /\ runs[r].event_id # None
    /\ lesson_retrieval_events'[runs[r].event_id[1]].completed

\* The delta against the average duration of the given lessons: absent
\* without lessons.
DeltaAgainst(r, lessons) ==
    IF lessons = <<>> THEN None
    ELSE Some(runs[r].loop[1].duration_ms - SumDurations(lessons) \div Len(lessons))

\* C28: the latency delta of a completed retrieval event is the execution's
\* duration minus the average duration of the agent's successful lessons of
\* the category that earlier executions produced, the execution's own lesson
\* left out, and it is absent when there is no such lesson.
C28_LatencyDeltaAgainstEarlier ==
    [][ \A r \in RunIds :
          CompletionStepOf(r) =>
              lesson_retrieval_events'[runs[r].event_id[1]].latency_delta_ms
                  = DeltaAgainst(r, EarlierSuccessful(r)) ]_vars

\* What the code computes when the baseline query succeeds: the delta
\* against the average over the stored lessons, the execution's own lesson
\* among them.
C28_LatencyDeltaAgainstStored ==
    [][ \A r \in RunIds :
          CompletionStepOf(r) /\ runs'[r].baseline_read =>
              lesson_retrieval_events'[runs[r].event_id[1]].latency_delta_ms
                  = DeltaAgainst(r, SelectSeq(task_lessons,
                        LAMBDA l : /\ l.shard_id = runs[r].shard_id
                                   /\ l.task_type = runs[r].task_type /\ l.success)) ]_vars


\* ------------------------------------------------- no cross-agent sharing
\* This step is a step of execution r.
StepOf(r) == runs'[r] # runs[r]

OwnedBy(shard_id, ls) == \A i \in 1..Len(ls) : ls[i].shard_id = shard_id

\* C26: a retrieval for an agent returns lessons of that agent only; the
\* baseline of an agent's feedback is the average over that agent's lessons
\* only; and no step of an execution of an agent changes a lesson of another
\* agent.  This holds in every interleaving of the executions of two agents.
C26_NoCrossAgentSharing ==
    /\ [](\A r \in RunIds :
            Started(r) => /\ OwnedBy(runs[r].shard_id, runs[r].candidates)
                          /\ OwnedBy(runs[r].shard_id, runs[r].retrieved))
    /\ [][ \A r \in RunIds :
             StepOf(r) =>
                 /\ \A i \in 1..Len(task_lessons) :
                       task_lessons[i].shard_id # runs'[r].shard_id
                           => task_lessons'[i] = task_lessons[i]
                 /\ (FeedbackStepOf(r) /\ runs'[r].baseline_read) =>
                       runs'[r].baseline =
                           avg_success_duration_by_task_type(
                               OwnLessons(runs[r].shard_id), runs[r].shard_id,
                               runs[r].task_type) ]_vars

\* Agent A's execution has applied its feedback to a lesson of its own,
\* against a baseline, while agent B's execution, which has inserted a
\* successful lesson of the same category with another duration, is between
\* its insert and its feedback.
C26_Witness ==
    /\ runs["r1"].pc = "done" /\ runs["r1"].updates >= 1
    /\ runs["r1"].baseline # None
    /\ runs["r2"].pc = "feedback" /\ runs["r2"].lesson_id # None
    /\ runs["r2"].lesson_id[1] < runs["r1"].lesson_id[1]
    /\ task_lessons[runs["r2"].lesson_id[1]].success
    /\ task_lessons[runs["r2"].lesson_id[1]].task_type = runs["r1"].task_type
    /\ task_lessons[runs["r2"].lesson_id[1]].duration_ms # runs["r1"].loop[1].duration_ms


\* ------------------------------------------- errors and fixes of a lesson
\* The lesson that execution r inserted, and the tool results it was
\* extracted from.
HasLesson(r) == runs[r].pc \in { "feedback", "done" } /\ runs[r].lesson_id # None
LessonOf(r) == task_lessons[runs[r].lesson_id[1]]
ResultsOf(r) == runs[r].loop[1].all_tool_results

\* The message collect_errors records for a failed result.
FailureMessage(result) == << result.tool_name, result.output >>

\* The messages of the failed results up to position n.
FailuresUpTo(results, n) ==
    { FailureMessage(results[i]) : i \in { k \in 1..n : ~results[k].success } }

\* C29: the errors of a lesson are at most 3 and pairwise distinct: a message
\* that several failed calls share is recorded once, and the first three
\* different messages are all recorded.
C29_ErrorsDistinct ==
    \A r \in RunIds :
        HasLesson(r) =>
            LET errors == LessonOf(r).errors
                results == ResultsOf(r)
            IN  /\ Len(errors) <= 3
                /\ \A i, j \in 1..Len(errors) : i # j => errors[i] # errors[j]
                /\ \A k \in 1..Len(results) :
                      (~results[k].success /\ Cardinality(FailuresUpTo(results, k)) <= 3)
                          => \E i \in 1..Len(errors) : errors[i] = FailureMessage(results[k])

\* What holds of the recorded errors: they are at most 3, and they are the
\* messages of the first failed calls in call order, repeated messages
\* repeated.
C29_ErrorsAreFirstFailures ==
    \A r \in RunIds :
        HasLesson(r) =>
            LET errors == LessonOf(r).errors
                failed == SelectSeq(ResultsOf(r), LAMBDA x : ~x.success)
            IN  /\ Len(errors) = Min(3, Len(failed))
                /\ \A i \in 1..Len(errors) : errors[i] = FailureMessage(failed[i])

\* The tools a lesson names as recoveries, and whether it carries the
\* generic note.
NamedAsRecovery(lesson) ==
    UNION { { lesson.fixes[i][2][k] : k \in 1..Len(lesson.fixes[i][2]) } :
              i \in { n \in 1..Len(lesson.fixes) :
                        lesson.fixes[n][1] = "Recovered by switching to successful tools" } }

HasGenericNote(lesson) ==
    \E i \in 1..Len(lesson.fixes) :
        lesson.fixes[i][1] = "Execution completed without tool-level failures."

\* The tool succeeded in a call made after a failed call.
SucceededAfterFailure(results, name) ==
    \E i, j \in 1..Len(results) :
        /\ i < j /\ ~results[i].success
        /\ results[j].success /\ results[j].tool_name = name

\* C30: the fixes of a lesson name only tools that succeeded in a call made
\* after an earlier failed call of the execution, and the generic note is
\* there exactly when no tool call failed.
C30_FixesNameRecoveriesOnly ==
    \A r \in RunIds :
        HasLesson(r) =>
            /\ \A name \in NamedAsRecovery(LessonOf(r)) :
                  SucceededAfterFailure(ResultsOf(r), name)
            /\ HasGenericNote(LessonOf(r))
                  = (\A k \in 1..Len(ResultsOf(r)) : ResultsOf(r)[k].success)

\* What holds of the recorded fixes: the generic note is there exactly when
\* no tool call failed, and the tools named are tools that succeeded in an
\* execution in which some call failed.
C30_GenericNoteIffNoFailure ==
    \A r \in RunIds :
        HasLesson(r) =>
            /\ HasGenericNote(LessonOf(r))
                  = (\A k \in 1..Len(ResultsOf(r)) : ResultsOf(r)[k].success)
            /\ \A name \in NamedAsRecovery(LessonOf(r)) :
                  /\ \E k \in 1..Len(ResultsOf(r)) : ~ResultsOf(r)[k].success
                  /\ \E k \in 1..Len(ResultsOf(r)) :
                        ResultsOf(r)[k].success /\ ResultsOf(r)[k].tool_name = name


\* ------------------------------------------------------------------ C31
\* The messages the turn under way has appended so far: its assistant
\* message and one tool message per call that has returned.
TurnUnderWay ==
    IF pc \in {"tool_loop", "await_tool"}
    THEN CallMessages(calls, turn_results, Len(turn_results))
    ELSE <<>>

\* An assistant message carries content or a non-empty list of tool calls.
AssistantCarriesSomething(m) ==
    m.role = "assistant" =>
        \/ m.content # None
        \/ m.tool_calls # None /\ Len(m.tool_calls[1]) > 0

\* C31: at every point of a loop execution the conversation is the initial
\* user message followed, for each tool-call turn in order, by one assistant
\* message carrying the turn's non-empty list of tool calls and one tool
\* message per call of the turn (per call that has returned, for the turn
\* under way); messages are only appended, never changed or removed; and no
\* assistant message has neither content nor tool calls.
C31_ConversationShape ==
    /\ [](/\ conversation = ConversationOf(turns) \o TurnUnderWay
          /\ conversation[1] = text("user", InitialMessage)
          /\ \A k \in 1..Len(turns) :
                IsToolTurn(turns[k]) => Len(turns[k].inference_result.calls) > 0
          /\ pc \in {"tool_loop", "await_tool"} => Len(calls) > 0
          /\ \A i \in 1..Len(conversation) : AssistantCarriesSomething(conversation[i]))
    /\ [][ /\ Len(conversation') >= Len(conversation)
           /\ SubSeq(conversation', 1, Len(conversation)) = conversation ]_vars

\* Two tool-call turns were completed, of two calls and of one call.
C31_Witness ==
    /\ pc = "done"
    /\ Len(turns) = 2
    /\ Len(conversation) = 6
    /\ conversation[2].role = "assistant" /\ Len(conversation[2].tool_calls[1]) = 2
    /\ conversation[3].role = "tool" /\ conversation[4].role = "tool"
    /\ conversation[5].role = "assistant" /\ Len(conversation[5].tool_calls[1]) = 1
    /\ conversation[6].role = "tool"


\* ------------------------------------------------------------------ C32
\* The retrieval step of execution r under embedding answer embed.
RetrievalStepOf(r, embed) ==
    \E shard_id \in Agents, task \in Tasks, db_ok \in BOOLEAN, event_ok \in BOOLEAN :
        RunRetrieve(r, shard_id, task, db_ok, embed, event_ok)

\* The score the hybrid pass gives the candidate at position i.
HybridScore(run, embed, i) ==
    IF embed = "failed" THEN FallbackScore(i - 1)
    ELSE hybrid_rank(run.candidates[i], tokenize(run.task),
                     Semantic(embed, i - 1, Len(run.candidates)), run.task_type)

\* The scores under which a lesson stands among the candidates, highest
\* first (a lesson the prefilter returned twice has two).
ScoresOf(run, embed, lesson) ==
    LET scored == [ i \in 1..Len(run.candidates) |->
                      << run.candidates[i], HybridScore(run, embed, i) >> ]
    IN  SortByRankDesc(SelectSeq(scored, LAMBDA e : e[1] = lesson))

\* How many of the first k selected lessons are the k-th one.
TimesSelected(run, k) == Cardinality({ q \in 1..k : run.retrieved[q] = run.retrieved[k] })

\* The candidates dropped for the floor: below it, and no near-duplicate of
\* a selected lesson.
BelowFloor(run, embed) ==
    { i \in 1..Len(run.candidates) :
        /\ HybridScore(run, embed, i) < HybridFloor * RankOne
        /\ \A k \in 1..Len(run.retrieved) :
              /\ run.retrieved[k] # run.candidates[i]
              /\ ~near_duplicate(run.retrieved[k], run.candidates[i]) }

HybridSelectionAsClaimed(run, embed) ==
    LET scoreOf(k) == ScoresOf(run, embed, run.retrieved[k])[TimesSelected(run, k)][2]
    IN  /\ \A k \in 1..Len(run.retrieved) :
              TimesSelected(run, k) <= Len(ScoresOf(run, embed, run.retrieved[k]))
        /\ \A j, k \in 1..Len(run.retrieved) : j < k => scoreOf(j) >= scoreOf(k)
        /\ \A k \in 1..Len(run.retrieved) :
              k > 3 => /\ scoreOf(k) >= HybridFloor * RankOne
                       /\ \A i \in 1..Len(run.candidates) :
                             HybridScore(run, embed, i) < HybridFloor * RankOne
                                => HybridScore(run, embed, i) < scoreOf(k)
        /\ BelowFloor(run, embed) # {} => Len(run.retrieved) >= 3

\* C32: the hybrid pass selects lessons in descending score order, and a
\* lesson is selected while 3 or more are chosen only if its score is at
\* least the floor 0.18: once 3 are chosen the selection ends at the first
\* candidate below the floor, so no candidate ranked after it is selected,
\* near-duplicate or not.
C32_HybridFloorEndsSelection ==
    [][ \A r \in RunIds, embed \in EmbedAnswers :
          RetrievalStepOf(r, embed) => HybridSelectionAsClaimed(runs'[r], embed) ]_vars

\* A retrieval chose at least 3 lessons and left out a candidate that is
\* below the floor and no near-duplicate of a chosen one.
C32_Witness ==
    \E r \in RunIds, embed \in EmbedAnswers \ { "failed" } :
        /\ Started(r) /\ runs[r].embedded
        /\ runs[r].retrieved =
              retrieve_lessons_hybrid(task_lessons, TRUE, runs[r].shard_id, runs[r].task,
                                      runs[r].task_type, embed, clock)
        /\ runs[r].pc = "loop"
        /\ Len(runs[r].retrieved) >= 3
        /\ BelowFloor(runs[r], embed) # {}


\* ------------------------------------------------------------------ C33
Ids(ls) == { ls[i].id : i \in 1..Len(ls) }
HasTokens(lesson) == tokenize(lesson.goal \o lesson.approach) # <<>>

C33_NoLessonWithTokensTwice ==
    \A r \in RunIds :
        Started(r) =>
            \A i, j, k \in 1..Len(runs[r].candidates) :
                /\ (i < j /\ runs[r].candidates[i].id = runs[r].candidates[j].id)
                      => ~HasTokens(runs[r].candidates[i])
                /\ (i < j /\ j < k) =>
                      ~(/\ runs[r].candidates[i].id = runs[r].candidates[j].id
                        /\ runs[r].candidates[j].id = runs[r].candidates[k].id)

\* A retrieval returned lessons of a store in which every lesson holds a
\* token, after the first pass had stopped below the target.
C33_WitnessFilled ==
    \E r \in RunIds :
        /\ Started(r)
        /\ \A i \in 1..Len(task_lessons) : HasTokens(task_lessons[i])
        /\ Len(runs[r].candidates) \in 4..6


\* ------------------------------------------------------------------ C34
\* The position of a lesson in the window the prefilter reads: the agent's
\* rows, more recent first.
WindowPosition(run, lesson) ==
    LET window == RecentFirst(OwnLessons(run.shard_id))
    IN  CHOOSE p \in 1..Len(window) : window[p] = lesson

\* The rank the prefilter gives a candidate.
PrefilterRank(run, i) ==
    lesson_rank(run.candidates[i], tokenize(run.task), run.task_type, clock)

\* Candidates of equal rank stand in the order of the window.
PrefilterTiesKeepWindowOrder(run) ==
    \A i, j \in 1..Len(run.candidates) :
        (/\ i < j
         /\ run.candidates[i] # run.candidates[j]
         /\ PrefilterRank(run, i) = PrefilterRank(run, j))
            => /\ WindowPosition(run, run.candidates[i]) < WindowPosition(run, run.candidates[j])
               /\ run.candidates[i].created_at >= run.candidates[j].created_at

\* Selected lessons of equal hybrid score stand in the order of the
\* candidates.
HybridTiesKeepPrefilterOrder(run) ==
    LET scoreOf(k) == ScoresOf(run, run.vectors, run.retrieved[k])[TimesSelected(run, k)][2]
    IN  \A j, k \in 1..Len(run.retrieved) :
            (j < k /\ scoreOf(j) = scoreOf(k)) =>
                \E p, q \in 1..Len(run.candidates) :
                    /\ p < q
                    /\ run.candidates[p] = run.retrieved[j]
                    /\ run.candidates[q] = run.retrieved[k]
                    /\ HybridScore(run, run.vectors, p) = scoreOf(j)
                    /\ HybridScore(run, run.vectors, q) = scoreOf(k)

\* Two retrievals were given the same inputs: agent, task text and category,
\* and (the store and the clock being the same) a table that could be read.
SameInputs(r, q) ==
    /\ Started(r) /\ Started(q)
    /\ runs[r].shard_id = runs[q].shard_id
    /\ runs[r].task = runs[q].task
    /\ runs[r].task_type = runs[q].task_type
    /\ runs[r].read_ok /\ runs[q].read_ok

C35_OnlyExecuteWritesExecutionState ==
    [][ \A h \in OtherReqs :
          h_pc'[h] # h_pc[h] => db_shard'.execution_state = db_shard.execution_state ]_vars


\* ------------------------------------------------------------------ C36
\* C36: the Tool Executor runs only tools that the shard's capabilities
\* allow: every tool call that execute_tool dispatches to a tool names a
\* tool among the definitions the loop was given, whatever calls the gateway
\* returns.
C36_OnlyAllowedToolsRun ==
    \A i \in 1..Len(tool_execs) :
        tool_execs[i].call.name \in KnownTools => tool_execs[i].call.name \in tools

\* What holds: a call of a name the executor does not know fails without
\* running anything, so every call that succeeds names one of the five tools.
C36_OnlyKnownToolsSucceed ==
    \A i \in 1..Len(all_tool_results) :
        all_tool_results[i].success => all_tool_results[i].tool_name \in KnownTools

\* shell_exec ran to success for a shard without shell access.
C36_WitnessShellRan ==
    /\ "shell_exec" \notin tools
    /\ \E i \in 1..Len(all_tool_results) :
          /\ all_tool_results[i].tool_name = "shell_exec"
          /\ all_tool_results[i].success


\* ------------------------------------------------------------------ C37
\* The loop of execution r stopped with a reason other than Completed.
StoppedEarly(r) == runs[r].loop # None /\ runs[r].loop[1].stop_reason # "Completed"

\* C37: an execution is recorded as successful and yields a helpful verdict
\* only if its loop stopped with Completed: the lesson of an execution that
\* stopped with InferenceError, TurnTimeout or MaxTurns has success = false,
\* and its verdict for the lessons it retrieved is never helpful.
C37_SuccessOnlyWhenCompleted ==
    \A r \in RunIds :
        StoppedEarly(r) =>
            /\ HasLesson(r) => ~LessonOf(r).success
            /\ runs[r].helpful # Some(TRUE)

\* What holds: the lesson's success flag says that no tool result failed,
\* and a helpful verdict is given only then.
C37_SuccessIffNoToolFailure ==
    \A r \in RunIds :
        /\ HasLesson(r) =>
              (LessonOf(r).success <=> \A i \in 1..Len(ResultsOf(r)) : ResultsOf(r)[i].success)
        /\ runs[r].helpful = Some(TRUE) =>
              \A i \in 1..Len(ResultsOf(r)) : ResultsOf(r)[i].success


\* ------------------------------------------------------------------ C38
\* Request r was refused: 404, 409 or 403.
Refused(r) == e_response[r] \in { "not_found", "conflict", "forbidden" }

\* A step of request r before its admission: the load of the shard, or the
\* checks when they end in a refusal.
StepBeforeAdmission(r) ==
    /\ e_pc'[r] # e_pc[r]
    /\ e_pc[r] \in { "new", "validate" }
    /\ e_pc'[r] \in { "validate", "done" }

\* C38: an execute request that is refused (shard not found, shard not
\* idle, owner header not matching) changes nothing: no step of it changes
\* the shard's row, the job table, the lessons or the retrieval events, it
\* never enters run_execution (where the action log entry is written), and
\* it takes no further step.
C38_RefusedChangesNothing ==
    /\ [](\A r \in ExecuteReqs :
            Refused(r) => /\ e_pc[r] = "done"
                          /\ jobs[r] = None
                          /\ e_loop[r] = None /\ e_shard[r] = None)
    /\ [][ \A r \in ExecuteReqs :
             /\ StepBeforeAdmission(r) =>
                   /\ db_shard' = db_shard
                   /\ jobs' = jobs
                   /\ task_lessons' = task_lessons
                   /\ lesson_retrieval_events' = lesson_retrieval_events
             /\ Refused(r) => /\ e_response'[r] = e_response[r]
                              /\ e_pc'[r] = e_pc[r] ]_vars

\* The three refusals: of an unknown id, of a shard under execution, and
\* of a request whose owner header does not match.
C38_WitnessNotFound == \E r \in ExecuteReqs : e_response[r] = "not_found"

C38_WitnessConflict ==
    \E r, q \in ExecuteReqs :
        /\ e_response[r] = "conflict"
        /\ e_pc[q] = "run_execution" /\ db_shard.execution_state = "executing"

C38_Witness ==
    \E r \in ExecuteReqs :
        /\ e_response[r] = "forbidden"
        /\ db_shard = OwnedShard


\* ------------------------------------------------------------------ C39
\* The job of request r is in the table with status running.
JobRunning(r) == jobs[r] # None /\ jobs[r][1].status = "running"

\* The job of request r has been written completed or failed.
JobSettled(r) == jobs[r] # None /\ jobs[r][1].status \in { "completed", "failed" }

\* C39: every background job eventually leaves the running status: once
\* the job is in the table, the spawned pipeline eventually writes
\* completed or failed, whatever the stop reason, whatever bookkeeping step
\* fails and however pollers and other requests interleave.
C39_JobEventuallySettled ==
    \A r \in ExecuteReqs : JobRunning(r) ~> JobSettled(r)

\* What the pipeline does guarantee: a running job is settled unless the
\* spawned task has unwound in the lesson extraction.
C39_SettledUnlessPanicked ==
    \A r \in ExecuteReqs : JobRunning(r) ~> (JobSettled(r) \/ e_pc[r] = "panicked")

\* A job settled after a loop whose shard write-back failed.
C39_WitnessSettled ==
    \E r \in ExecuteReqs :
        /\ JobSettled(r) /\ e_pc[r] = "done"
        /\ db_shard.execution_state = "executing"


\* ------------------------------------------------------------------ C40
\* A poller of job r is answered completed.
JobCompleted(r) == jobs[r] # None /\ jobs[r][1].status = "completed"

\* No execute request other than r has got past the checks, so r's
\* pipeline is the only writer the shard's row has had.
OnlyPipeline(r) ==
    \A q \in ExecuteReqs \ { r } :
        \/ e_pc[q] \in { "new", "validate" }
        \/ e_response[q] \in { "not_found", "db_error", "conflict", "forbidden" }

\* C40: in every state where a poller can observe a background job as
\* completed, the shard's persisted execution state has been set back to
\* idle by that job's pipeline, so the next execute request is not refused
\* as busy because of that job.
C40_CompletedImpliesIdle ==
    \A r \in ExecuteReqs :
        JobCompleted(r) /\ OnlyPipeline(r) => db_shard.execution_state = "idle"

\* The order of the statements does hold: the job is settled from the
\* task's last step, after the pipeline set its Shard idle and issued the
\* write of the row.
C40_WriteBackIssuedFirst ==
    [][ \A r \in ExecuteReqs :
          JobSettled(r)' /\ ~JobSettled(r) =>
              /\ e_pc[r] = "job_write"
              /\ e_shard[r] # None /\ e_shard[r][1].execution_state = "idle" ]_vars

====
